---- MODULE Spec2Model ----
(***************************************************************************)
(* EZql query builders: the immutable SelectQueryBuilder                   *)
(* (SelectQueryBuilder-improved.ts), the mutable SelectQueryBuilder, and   *)
(* the Insert / Update / Delete builders, driven by a caller that obtains  *)
(* a builder from EZqlClient and chains fluent calls up to build().        *)
(*                                                                         *)
(* SQL text is a sequence of tokens (strings); a template literal's        *)
(* interpolations and its fixed words are separate tokens, and             *)
(* Array.join(', ') puts a "," token between the parts.  A QueryParameters *)
(* object is a sequence of [name, value] entries in insertion order.       *)
(* SqlValues are strings; "undefined" and "null" are the JS values of      *)
(* those names as a template literal prints them.                          *)
(***************************************************************************)
EXTENDS Integers, Sequences, FiniteSets, TLC

\* ------------------------------------------------------------------ bounds
MaxWhere == 2
MaxSetCalls == 2
MaxRows == 2
MaxPerKind == 1
MaxCalls == 4
MaxParams == 3
\* executeWithRetry is called with maxRetries of at most MaxRetries
MaxRetries == 4
\* the provider constructs at most MaxPools connection pools
MaxPools == 2

\* ------------------------------------------------------------- JS values
UNDEFINED == "undefined"
NULL == "null"
NullNum == -1

RECURSIVE NumStr(_)
\* Number -> decimal text, as `${n}` prints a non-negative integer.
NumStr(n) ==
  IF n < 10
    THEN <<"0", "1", "2", "3", "4", "5", "6", "7", "8", "9">>[n + 1]
    ELSE NumStr(n \div 10) \o NumStr(n % 10)

ParamName(i) == "param" \o NumStr(i)
Placeholder(i) == "@" \o ParamName(i)

RECURSIVE JoinTokens(_, _)
\* parts.join(sep) over token sequences: sep between consecutive parts.
JoinTokens(parts, sep) ==
  IF Len(parts) = 0 THEN <<>>
  ELSE IF Len(parts) = 1 THEN parts[1]
  ELSE parts[1] \o sep \o JoinTokens(Tail(parts), sep)

Has(obj, f) == f \in DOMAIN obj

\* Object.keys(obj): the names of a QueryParameters object, in order.
Keys(obj) == [i \in 1..Len(obj) |-> obj[i].name]
HasKey(obj, k) == \E i \in 1..Len(obj) : obj[i].name = k
Get(obj, k) == obj[CHOOSE i \in 1..Len(obj) : obj[i].name = k].value

RECURSIVE AssignAll(_, _)
\* obj[k] = v for every entry of src, in order: an existing key keeps its
\* position and takes the new value, a new key is appended.
AssignAll(obj, src) ==
  IF Len(src) = 0 THEN obj
  ELSE LET e == src[1]
           nxt == IF HasKey(obj, e.name)
                    THEN [i \in 1..Len(obj) |->
                            IF obj[i].name = e.name THEN e ELSE obj[i]]
                    ELSE Append(obj, e)
       IN AssignAll(nxt, Tail(src))

\* { ...a, ...b }
Spread(a, b) == AssignAll(a, b)

\* !s?.trim(): undefined, empty or whitespace only.
IsBlank(s) == s \in {"", " ", UNDEFINED}
\* s.includes(';') || s.includes('--')
Dangerous == {"id; DROP TABLE users", "id --"}
HasInjection(s) == s \in Dangerous

\* A WhereCondition object.  value is the array when isArray, else the
\* one-element sequence holding the scalar.
Condition(type, column, operator, condition, value, isArray, connector) ==
  [type |-> type, column |-> column, operator |-> operator,
   condition |-> condition, value |-> value, isArray |-> isArray,
   connector |-> connector]

\* What a fluent call hands back: threw is the error code ("" when the call
\* returned), self the receiver as the call left it, ret the returned builder.
Returned(self, ret) == [threw |-> "", self |-> self, ret |-> ret]
Threw(code, self) == [threw |-> code, self |-> self, ret |-> self]
\* this was assigned to and returned.
Mutated(this) == Returned(this, this)

\* ======================================================================
\* SelectQueryBuilder (immutable), scr/core/query/SelectQueryBuilder-improved.ts
\* ======================================================================

\* constructor(options): every field from options, with || defaults.
I_constructor(options) ==
  [cls |-> "SelectImproved",
   selectClause |-> IF Has(options, "selectClause") THEN options.selectClause
                    ELSE [columns |-> <<>>, aggregates |-> <<>>],
   fromClause |-> IF Has(options, "fromClause") THEN options.fromClause ELSE "",
   whereConditions |-> IF Has(options, "whereConditions")
                       THEN options.whereConditions ELSE <<>>,
   joinClauses |-> IF Has(options, "joinClauses") THEN options.joinClauses ELSE <<>>,
   orderByClause |-> IF Has(options, "orderByClause")
                     THEN options.orderByClause ELSE <<>>,
   groupByClause |-> IF Has(options, "groupByClause")
                     THEN options.groupByClause ELSE <<>>,
   limitClause |-> IF Has(options, "limitClause") /\ options.limitClause # NullNum
                      /\ options.limitClause # 0
                   THEN options.limitClause ELSE NullNum,
   offsetClause |-> IF Has(options, "offsetClause") /\ options.offsetClause # NullNum
                       /\ options.offsetClause # 0
                    THEN options.offsetClause ELSE NullNum,
   parameters |-> IF Has(options, "parameters") THEN options.parameters ELSE <<>>,
   distinctClause |-> IF Has(options, "distinctClause")
                      THEN options.distinctClause ELSE FALSE]

I_create == I_constructor(<<>>)

\* cloneWith as a method that assigned the changes to this and returned it.
I_cloneWithInPlace(this, changes) ==
  LET n == I_constructor(
        [f \in DOMAIN this \ {"cls"} |-> IF Has(changes, f) THEN changes[f] ELSE this[f]])
  IN Returned(n, n)

\* cloneWith(changes): a new instance; the receiver is not written.
I_cloneWith(this, changes) ==
  Returned(this, I_constructor(
    [f \in DOMAIN this \ {"cls"} |-> IF Has(changes, f) THEN changes[f] ELSE this[f]]))

I_validateColumnName(column) ==
  IF IsBlank(column) \/ HasInjection(column) THEN "INVALID_COLUMN_NAME" ELSE ""

I_validateTableName(table) ==
  IF IsBlank(table) \/ HasInjection(table) THEN "INVALID_TABLE_NAME" ELSE ""

I_validateColumns(columns) ==
  IF Len(columns) = 0 THEN "INVALID_SELECT_COLUMNS"
  ELSE IF \E i \in 1..Len(columns) : I_validateColumnName(columns[i]) # ""
       THEN "INVALID_COLUMN_NAME" ELSE ""

I_validateJoinCondition(condition) ==
  IF IsBlank(condition) THEN "INVALID_JOIN_CONDITION" ELSE ""

I_validateInValues(values) ==
  IF Len(values) = 0 THEN "INVALID_IN_VALUES" ELSE ""

I_validateOrderDirection(direction) ==
  IF direction \notin {"ASC", "DESC"} THEN "INVALID_ORDER_DIRECTION" ELSE ""

I_validateLimitOffset(count) ==
  IF count < 0 THEN "INVALID_LIMIT_OFFSET" ELSE ""

\* createWhereCondition(columnOrCondition, operatorOrValue, value): where()
\* always passes its three parameters, so arguments.length is 3 here whatever
\* argc the caller of where() used; the first two branches are dead.
I_createWhereCondition(argc, columnOrCondition, operatorOrValue, value) ==
  LET argumentsLength == 3
  IN IF argumentsLength = 1
       THEN Condition("raw", "", "raw", columnOrCondition, <<UNDEFINED>>, FALSE, UNDEFINED)
     ELSE IF argumentsLength = 2
       THEN Condition("simple", columnOrCondition, "=", UNDEFINED,
                      <<operatorOrValue>>, FALSE, UNDEFINED)
     ELSE Condition("simple", columnOrCondition, operatorOrValue, UNDEFINED,
                    <<value>>, FALSE, UNDEFINED)

\* extractParameters(condition): the entries the condition adds, named from
\* the number of parameters the receiver already holds.
I_extractParameters(this, condition) ==
  LET paramIndex == Len(Keys(this.parameters))
      vs == condition.value
  IN CASE condition.type = "simple" ->
            <<[name |-> ParamName(paramIndex), value |-> vs[1]]>>
       [] condition.type \in {"in", "between"} ->
            [i \in 1..Len(vs) |-> [name |-> ParamName(paramIndex + i - 1), value |-> vs[i]]]
       [] condition.type = "raw" ->
            IF condition.isArray
              THEN [i \in 1..Len(vs) |->
                      [name |-> ParamName(paramIndex + i - 1), value |-> vs[i]]]
              ELSE <<>>
       [] OTHER -> <<>>

I_addCondition(this, condition, withParameters) ==
  I_cloneWith(this,
    IF withParameters
      THEN [whereConditions |-> Append(this.whereConditions, condition),
            parameters |-> Spread(this.parameters, I_extractParameters(this, condition))]
      ELSE [whereConditions |-> Append(this.whereConditions, condition)])

I_select(this, columns) ==
  IF I_validateColumns(columns) # "" THEN Threw(I_validateColumns(columns), this)
  ELSE I_cloneWith(this,
         [selectClause |-> [this.selectClause EXCEPT
                              !.columns = this.selectClause.columns \o columns]])

I_selectRaw(this, rawSelect) ==
  IF IsBlank(rawSelect) THEN Threw("INVALID_RAW_SELECT", this)
  ELSE I_cloneWith(this,
         [selectClause |-> [this.selectClause EXCEPT
                              !.columns = Append(this.selectClause.columns, rawSelect)]])

I_selectDistinct(this, columns) ==
  LET r == I_select(this, columns)
  IN IF r.threw # "" THEN r
     ELSE [I_cloneWith(r.ret, [distinctClause |-> TRUE]) EXCEPT !.self = r.self]

I_addAggregate(this, func, column, alias) ==
  IF I_validateColumnName(column) # "" THEN Threw(I_validateColumnName(column), this)
  ELSE I_cloneWith(this,
         [selectClause |-> [this.selectClause EXCEPT
            !.aggregates = Append(this.selectClause.aggregates,
                                  [function |-> func, column |-> column, alias |-> alias])]])

I_from(this, table) ==
  IF I_validateTableName(table) # "" THEN Threw(I_validateTableName(table), this)
  ELSE I_cloneWith(this, [fromClause |-> table])

I_fromRaw(this, rawFrom) ==
  IF IsBlank(rawFrom) THEN Threw("INVALID_RAW_FROM", this)
  ELSE I_cloneWith(this, [fromClause |-> rawFrom])

I_addJoin(this, type, table, onCondition) ==
  IF I_validateTableName(table) # "" THEN Threw(I_validateTableName(table), this)
  ELSE IF I_validateJoinCondition(onCondition) # ""
    THEN Threw(I_validateJoinCondition(onCondition), this)
  ELSE I_cloneWith(this,
         [joinClauses |-> Append(this.joinClauses,
            [type |-> type, table |-> table, onCondition |-> onCondition])])

I_where(this, argc, columnOrCondition, operatorOrValue, value) ==
  I_addCondition(this,
    I_createWhereCondition(argc, columnOrCondition, operatorOrValue, value), TRUE)

I_whereInOp(this, column, operator, values) ==
  IF I_validateColumnName(column) # "" THEN Threw(I_validateColumnName(column), this)
  ELSE IF I_validateInValues(values) # "" THEN Threw(I_validateInValues(values), this)
  ELSE I_addCondition(this,
         Condition("in", column, operator, UNDEFINED, values, TRUE, UNDEFINED), TRUE)

I_whereIn(this, column, values) == I_whereInOp(this, column, "IN", values)

I_whereNotIn(this, column, values) == I_whereInOp(this, column, "NOT IN", values)

I_whereBetween(this, column, min, max) ==
  IF I_validateColumnName(column) # "" THEN Threw(I_validateColumnName(column), this)
  ELSE I_addCondition(this,
         Condition("between", column, "BETWEEN", UNDEFINED, <<min, max>>, TRUE, UNDEFINED),
         TRUE)

I_whereNullOp(this, column, operator) ==
  IF I_validateColumnName(column) # "" THEN Threw(I_validateColumnName(column), this)
  ELSE I_addCondition(this,
         Condition("null", column, operator, UNDEFINED, <<NULL>>, FALSE, UNDEFINED), FALSE)

I_whereNull(this, column) == I_whereNullOp(this, column, "IS NULL")

I_whereNotNull(this, column) == I_whereNullOp(this, column, "IS NOT NULL")

I_whereRaw(this, condition, values) ==
  IF IsBlank(condition) THEN Threw("INVALID_RAW_WHERE", this)
  ELSE I_addCondition(this,
         Condition("raw", "", "raw", condition, values, TRUE, UNDEFINED), TRUE)

I_orderBy(this, column, direction) ==
  IF I_validateColumnName(column) # "" THEN Threw(I_validateColumnName(column), this)
  ELSE IF I_validateOrderDirection(direction) # ""
    THEN Threw(I_validateOrderDirection(direction), this)
  ELSE I_cloneWith(this,
         [orderByClause |-> Append(this.orderByClause,
                                   [column |-> column, direction |-> direction])])

I_orderByRaw(this, rawOrder) ==
  IF IsBlank(rawOrder) THEN Threw("INVALID_RAW_ORDER", this)
  ELSE I_cloneWith(this,
         [orderByClause |-> Append(this.orderByClause,
                                   [column |-> rawOrder, direction |-> "ASC"])])

\* groupBy(...columns): a fresh { columns } object; a having set before is
\* not carried over.
I_groupBy(this, columns) ==
  IF Len(columns) = 0 THEN Threw("INVALID_GROUP_BY", this)
  ELSE IF \E i \in 1..Len(columns) : I_validateColumnName(columns[i]) # ""
    THEN Threw("INVALID_COLUMN_NAME", this)
  ELSE I_cloneWith(this, [groupByClause |-> <<[columns |-> columns, having |-> ""]>>])

I_having(this, condition) ==
  IF IsBlank(condition) THEN Threw("INVALID_HAVING", this)
  ELSE I_cloneWith(this,
         [groupByClause |->
            <<[columns |-> IF Len(this.groupByClause) > 0
                           THEN this.groupByClause[1].columns ELSE <<>>,
               having |-> condition]>>])

I_limit(this, count) ==
  IF I_validateLimitOffset(count) # "" THEN Threw(I_validateLimitOffset(count), this)
  ELSE I_cloneWith(this, [limitClause |-> count])

I_offset(this, count) ==
  IF I_validateLimitOffset(count) # "" THEN Threw(I_validateLimitOffset(count), this)
  ELSE I_cloneWith(this, [offsetClause |-> count])

I_clone(this) == I_cloneWith(this, <<>>)

\* validate(): the error messages, in the order the checks run.
\* validate() without its FROM check.
I_validateWithoutFrom(this) ==
  LET sc == this.selectClause
      g == this.groupByClause
      errors ==
        (IF Len(sc.columns) = 0 /\ Len(sc.aggregates) = 0
              THEN <<"SELECT clause is required">> ELSE <<>>)
        \o (IF Len(sc.aggregates) > 0 /\ Len(g) = 0 /\ Len(sc.columns) > 0
              THEN <<"Non-aggregate columns in SELECT require GROUP BY clause">>
              ELSE <<>>)
        \o (IF Len(g) > 0 /\ g[1].having # "" /\ Len(g[1].columns) = 0
              THEN <<"HAVING clause requires GROUP BY clause">> ELSE <<>>)
        \o (IF this.offsetClause # NullNum /\ this.limitClause = NullNum
              THEN <<"OFFSET requires LIMIT clause in SQL Server">> ELSE <<>>)
  IN [isValid |-> Len(errors) = 0, errors |-> errors]

I_validate(this) ==
  LET sc == this.selectClause
      g == this.groupByClause
      errors ==
        (IF this.fromClause = "" THEN <<"FROM clause is required">> ELSE <<>>)
        \o (IF Len(sc.columns) = 0 /\ Len(sc.aggregates) = 0
              THEN <<"SELECT clause is required">> ELSE <<>>)
        \o (IF Len(sc.aggregates) > 0 /\ Len(g) = 0 /\ Len(sc.columns) > 0
              THEN <<"Non-aggregate columns in SELECT require GROUP BY clause">>
              ELSE <<>>)
        \o (IF Len(g) > 0 /\ g[1].having # "" /\ Len(g[1].columns) = 0
              THEN <<"HAVING clause requires GROUP BY clause">> ELSE <<>>)
        \o (IF this.offsetClause # NullNum /\ this.limitClause = NullNum
              THEN <<"OFFSET requires LIMIT clause in SQL Server">> ELSE <<>>)
  IN [isValid |-> Len(errors) = 0, errors |-> errors]

RECURSIVE I_whereParts(_, _)
\* The map() of buildWhereClause: one token sequence per condition,
\* paramIndex running on from one condition to the next.
I_whereParts(conditions, paramIndex) ==
  IF Len(conditions) = 0 THEN <<>>
  ELSE
    LET c == conditions[1]
        n == CASE c.type = "simple" -> 1
               [] c.type = "in" -> Len(c.value)
               [] c.type = "between" -> 2
               [] OTHER -> 0
        part ==
          CASE c.type = "raw" -> <<c.condition>>
            [] c.type = "simple" -> <<c.column, c.operator, Placeholder(paramIndex)>>
            [] c.type = "in" ->
                 <<c.column, c.operator, "(">>
                 \o JoinTokens([i \in 1..Len(c.value) |->
                                  <<Placeholder(paramIndex + i - 1)>>], <<",">>)
                 \o <<")">>
            [] c.type = "between" ->
                 <<c.column, "BETWEEN", Placeholder(paramIndex), "AND",
                   Placeholder(paramIndex + 1)>>
            [] OTHER -> <<c.column, c.operator>>
    IN <<part>> \o I_whereParts(Tail(conditions), paramIndex + n)

\* buildWhereClause(): paramIndex starts at the number of parameters the
\* builder holds, not at 0.
I_buildWhereClause(this) ==
  JoinTokens(I_whereParts(this.whereConditions, Len(Keys(this.parameters))), <<"AND">>)

I_aggregateSql(agg) ==
  <<agg.function \o "(" \o agg.column \o ")">>
  \o (IF agg.alias # UNDEFINED /\ agg.alias # "" THEN <<"AS", agg.alias>> ELSE <<>>)

I_buildSql(this) ==
  LET sc == this.selectClause
      g == this.groupByClause
      selectParts ==
        [i \in 1..Len(sc.columns) |-> <<sc.columns[i]>>]
        \o [i \in 1..Len(sc.aggregates) |-> I_aggregateSql(sc.aggregates[i])]
  IN <<"SELECT">>
     \o (IF this.distinctClause THEN <<"DISTINCT">> ELSE <<>>)
     \o (IF Len(selectParts) > 0 THEN JoinTokens(selectParts, <<",">>) ELSE <<"*">>)
     \o <<"FROM", this.fromClause>>
     \o JoinTokens([i \in 1..Len(this.joinClauses) |->
            <<this.joinClauses[i].type, "JOIN", this.joinClauses[i].table,
              "ON", this.joinClauses[i].onCondition>>], <<>>)
     \o (IF Len(this.whereConditions) > 0
           THEN <<"WHERE">> \o I_buildWhereClause(this) ELSE <<>>)
     \o (IF Len(g) > 0 /\ Len(g[1].columns) > 0
           THEN <<"GROUP", "BY">>
                \o JoinTokens([i \in 1..Len(g[1].columns) |-> <<g[1].columns[i]>>], <<",">>)
                \o (IF g[1].having # "" THEN <<"HAVING", g[1].having>> ELSE <<>>)
           ELSE <<>>)
     \o (IF Len(this.orderByClause) > 0
           THEN <<"ORDER", "BY">>
                \o JoinTokens([i \in 1..Len(this.orderByClause) |->
                     <<this.orderByClause[i].column, this.orderByClause[i].direction>>],
                     <<",">>)
           ELSE <<>>)
     \o (IF this.limitClause # NullNum
           THEN IF this.offsetClause # NullNum
                  THEN <<"OFFSET", NumStr(this.offsetClause), "ROWS", "FETCH", "NEXT",
                         NumStr(this.limitClause), "ROWS", "ONLY">>
                  ELSE <<"OFFSET", "0", "ROWS", "FETCH", "NEXT",
                         NumStr(this.limitClause), "ROWS", "ONLY">>
           ELSE <<>>)

\* What build() gives: ok with { sql, parameters }, or the error it throws.
Built(self, sql, parameters) ==
  [threw |-> "", self |-> self, sql |-> sql, parameters |-> parameters]
BuildThrew(code, self) ==
  [threw |-> code, self |-> self, sql |-> <<>>, parameters |-> <<>>]

\* build() as it would be if it kept the values it wrote in the builder.
I_buildKeeping(this) ==
  IF ~I_validate(this).isValid THEN BuildThrew("INVALID_QUERY_BUILD", this)
  ELSE Built([this EXCEPT !.parameters = @ \o @], I_buildSql(this), this.parameters)

I_build(this) ==
  IF ~I_validate(this).isValid THEN BuildThrew("INVALID_QUERY_BUILD", this)
  ELSE Built(this, I_buildSql(this), this.parameters)

\* ======================================================================
\* SelectQueryBuilder (mutable), core/query/SelectQueryBuilder.ts
\* ======================================================================

M_constructor ==
  [cls |-> "SelectMutable", selectClause |-> <<>>, fromClause |-> "",
   whereConditions |-> <<>>, joinClauses |-> <<>>, orderByClause |-> <<>>,
   groupByClause |-> <<>>, havingClause |-> "", limitClause |-> NullNum,
   offsetClause |-> NullNum, parameters |-> <<>>]

M_select(this, columns) == Mutated([this EXCEPT !.selectClause = columns])

M_from(this, table) == Mutated([this EXCEPT !.fromClause = table])

M_join(this, table, onCondition) ==
  Mutated([this EXCEPT !.joinClauses =
              Append(@, [type |-> "INNER", table |-> table, onCondition |-> onCondition])])

\* where(column, operator, value, connector = 'AND'): a missing argument is
\* undefined; an undefined connector takes the default.
M_where(this, column, operator, value, connector) ==
  LET conn == IF connector = UNDEFINED THEN "AND" ELSE connector
  IN Mutated([this EXCEPT !.whereConditions =
       Append(@, Condition("simple", column, operator, UNDEFINED, <<value>>, FALSE,
                           IF Len(this.whereConditions) = 0 THEN UNDEFINED ELSE conn))])

\* whereRaw(condition, ...values): the values go to this.parameters at once;
\* the condition keeps only values[0].
M_whereRaw(this, condition, values) ==
  Mutated([this EXCEPT
    !.parameters = @ \o values,
    !.whereConditions =
       Append(@, Condition("raw", "", "raw", condition,
                           <<IF Len(values) > 0 THEN values[1] ELSE UNDEFINED>>, FALSE,
                           IF Len(this.whereConditions) = 0 THEN UNDEFINED ELSE "AND"))])

M_orderBy(this, column, direction) ==
  Mutated([this EXCEPT !.orderByClause =
              Append(@, [column |-> column, direction |-> direction])])

M_groupBy(this, columns) == Mutated([this EXCEPT !.groupByClause = @ \o columns])

M_having(this, condition) == Mutated([this EXCEPT !.havingClause = condition])

M_limit(this, count) == Mutated([this EXCEPT !.limitClause = count])

M_offset(this, count) == Mutated([this EXCEPT !.offsetClause = count])

RECURSIVE M_whereParts(_, _, _)
\* The map() of buildWhereClause: each condition that is not taken for raw
\* pushes its value onto this.parameters and is numbered by the length
\* before the push.  Gives the parts and the parameters array afterwards.
M_whereParts(conditions, index, parameters) ==
  IF index > Len(conditions) THEN [parts |-> <<>>, parameters |-> parameters]
  ELSE
    LET c == conditions[index]
        isRaw == c.operator = "=" /\ c.value[1] = NULL
        conditionStr ==
          IF isRaw THEN <<c.column>>
          ELSE <<c.column, c.operator, Placeholder(Len(parameters))>>
        part == IF index = 1 THEN conditionStr ELSE <<c.connector>> \o conditionStr
        rest == M_whereParts(conditions, index + 1,
                             IF isRaw THEN parameters ELSE Append(parameters, c.value[1]))
    IN [parts |-> <<part>> \o rest.parts, parameters |-> rest.parameters]

M_buildWhereClause(this) ==
  LET r == M_whereParts(this.whereConditions, 1, this.parameters)
  IN [clause |-> JoinTokens(r.parts, <<>>), parameters |-> r.parameters]

M_getParametersAsObject(parameters) ==
  [i \in 1..Len(parameters) |-> [name |-> ParamName(i - 1), value |-> parameters[i]]]

M_validate(this) == IF this.fromClause = "" THEN "VALIDATION_ERROR" ELSE ""

\* limitClause / offsetClause tested for truthiness: null and 0 are falsy.
Truthy(n) == n # NullNum /\ n # 0

M_build(this) ==
  IF M_validate(this) # "" THEN BuildThrew(M_validate(this), this)
  ELSE
    LET w == IF Len(this.whereConditions) > 0 THEN M_buildWhereClause(this)
             ELSE [clause |-> <<>>, parameters |-> this.parameters]
        after == [this EXCEPT !.parameters = w.parameters]
        sql ==
          <<"SELECT">>
          \o (IF Truthy(this.limitClause) /\ ~Truthy(this.offsetClause)
                THEN <<"TOP", NumStr(this.limitClause)>> ELSE <<>>)
          \o (IF Len(this.selectClause) > 0
                THEN JoinTokens([i \in 1..Len(this.selectClause) |->
                                   <<this.selectClause[i]>>], <<",">>)
                ELSE <<"*">>)
          \o <<"FROM", this.fromClause>>
          \o JoinTokens([i \in 1..Len(this.joinClauses) |->
                 <<this.joinClauses[i].type, "JOIN", this.joinClauses[i].table,
                   "ON", this.joinClauses[i].onCondition>>], <<>>)
          \o (IF Len(this.whereConditions) > 0 THEN <<"WHERE">> \o w.clause ELSE <<>>)
          \o (IF Len(this.groupByClause) > 0
                THEN <<"GROUP", "BY">>
                     \o JoinTokens([i \in 1..Len(this.groupByClause) |->
                                      <<this.groupByClause[i]>>], <<",">>)
                ELSE <<>>)
          \o (IF this.havingClause # "" THEN <<"HAVING", this.havingClause>> ELSE <<>>)
          \o (IF Len(this.orderByClause) > 0
                THEN <<"ORDER", "BY">>
                     \o JoinTokens([i \in 1..Len(this.orderByClause) |->
                          <<this.orderByClause[i].column, this.orderByClause[i].direction>>],
                          <<",">>)
                ELSE <<>>)
          \o (IF this.offsetClause # NullNum
                THEN (IF Len(this.orderByClause) = 0
                        THEN <<"ORDER", "BY", "(SELECT NULL)">> ELSE <<>>)
                     \o <<"OFFSET", NumStr(this.offsetClause), "ROWS">>
                     \o (IF Truthy(this.limitClause)
                           THEN <<"FETCH", "NEXT", NumStr(this.limitClause), "ROWS", "ONLY">>
                           ELSE <<>>)
                ELSE <<>>)
    IN Built(after, sql, M_getParametersAsObject(after.parameters))

\* ======================================================================
\* UpdateQueryBuilder, scr/core/query/UpdateQueryBuilder.ts
\* ======================================================================

U_constructor ==
  [cls |-> "Update", tableName |-> "", setValues |-> <<>>, whereConditions |-> <<>>,
   returningColumns |-> <<>>]

U_table(this, tableName) ==
  Mutated([this EXCEPT !.tableName = tableName])

\* set(column, value) and set(values): both write into setValues; a key
\* written again keeps its place and takes the later value.
U_set(this, values) ==
  Mutated([this EXCEPT !.setValues = AssignAll(@, values)])

\* where(...): dispatches on its own arguments.length.
U_where(this, argc, columnOrCondition, operatorOrValue, value) ==
  Mutated(
    [this EXCEPT !.whereConditions = Append(@,
       IF argc = 1
         THEN Condition("raw", "", "raw", columnOrCondition, <<UNDEFINED>>, FALSE, UNDEFINED)
       ELSE IF argc = 2
         THEN Condition("simple", columnOrCondition, "=", UNDEFINED,
                        <<operatorOrValue>>, FALSE, UNDEFINED)
       ELSE Condition("simple", columnOrCondition, operatorOrValue, UNDEFINED,
                      <<value>>, FALSE, UNDEFINED))])

U_push(this, condition) ==
  Mutated([this EXCEPT !.whereConditions = Append(@, condition)])

U_whereIn(this, column, values) ==
  U_push(this, Condition("in", column, "IN", UNDEFINED, values, TRUE, UNDEFINED))

U_whereBetween(this, column, min, max) ==
  U_push(this, Condition("between", column, "BETWEEN", UNDEFINED, <<min, max>>, TRUE,
                        UNDEFINED))

U_whereNull(this, column) ==
  U_push(this, Condition("null", column, "IS NULL", UNDEFINED, <<NULL>>, FALSE, UNDEFINED))

U_whereRaw(this, condition, values) ==
  U_push(this, Condition("raw", "", "raw", condition, values, TRUE, UNDEFINED))

\* returning(columns): a string is wrapped into a one-element array.
U_returning(this, columns) ==
  Mutated([this EXCEPT !.returningColumns = columns])

RECURSIVE U_whereParts(_, _)
\* The map() of buildWhereClause: per condition its tokens and the entries
\* it writes to whereParams; a raw condition writes none.
U_whereParts(conditions, paramIndex) ==
  IF Len(conditions) = 0 THEN [parts |-> <<>>, parameters |-> <<>>]
  ELSE
    LET c == conditions[1]
        n == CASE c.type = "simple" -> 1
               [] c.type = "in" -> Len(c.value)
               [] c.type = "between" -> 2
               [] OTHER -> 0
        entries == [i \in 1..n |->
                      [name |-> ParamName(paramIndex + i - 1), value |-> c.value[i]]]
        part ==
          CASE c.type = "raw" -> <<c.condition>>
            [] c.type = "simple" -> <<c.column, c.operator, Placeholder(paramIndex)>>
            [] c.type = "in" ->
                 <<c.column, c.operator, "(">>
                 \o JoinTokens([i \in 1..n |-> <<Placeholder(paramIndex + i - 1)>>], <<",">>)
                 \o <<")">>
            [] c.type = "between" ->
                 <<c.column, "BETWEEN", Placeholder(paramIndex), "AND",
                   Placeholder(paramIndex + 1)>>
            [] OTHER -> <<c.column, c.operator>>
        rest == U_whereParts(Tail(conditions), paramIndex + n)
    IN [parts |-> <<part>> \o rest.parts,
        parameters |-> AssignAll(entries, rest.parameters)]

U_buildWhereClause(this, startIndex) ==
  LET r == U_whereParts(this.whereConditions, startIndex)
  IN [clause |-> JoinTokens(r.parts, <<"AND">>), parameters |-> r.parameters]

\* The SET clause as build() would number it if every column took param0.
U_setPartsNoIncrement(setValues, paramIndex) ==
  [parts |-> [i \in 1..Len(setValues) |->
                <<setValues[i].name, "=", Placeholder(paramIndex)>>],
   parameters |-> AssignAll(<<>>, [i \in 1..Len(setValues) |->
                     [name |-> ParamName(paramIndex), value |-> setValues[i].value]]),
   paramIndex |-> paramIndex]

\* The SET clause of build(): one parameter per key of setValues, numbered
\* from paramIndex in key order.
U_setParts(setValues, paramIndex) ==
  [parts |-> [i \in 1..Len(setValues) |->
                <<setValues[i].name, "=", Placeholder(paramIndex + i - 1)>>],
   parameters |-> AssignAll(<<>>, [i \in 1..Len(setValues) |->
                     [name |-> ParamName(paramIndex + i - 1), value |-> setValues[i].value]]),
   paramIndex |-> paramIndex + Len(setValues)]

U_buildUnguarded(this) ==
  LET st == U_setParts(this.setValues, 0)
      w == U_buildWhereClause(this, st.paramIndex)
  IN Built(this,
       <<"UPDATE", this.tableName, "SET">> \o JoinTokens(st.parts, <<",">>)
       \o <<"WHERE">> \o w.clause,
       Spread(st.parameters, w.parameters))

U_build(this) ==
  IF this.tableName = "" THEN BuildThrew("Table name is required for UPDATE query", this)
  ELSE IF Len(Keys(this.setValues)) = 0 THEN BuildThrew("No values to update", this)
  ELSE IF Len(this.whereConditions) = 0
    THEN BuildThrew("WHERE clause is required for UPDATE query for safety", this)
  ELSE
    LET st == U_setParts(this.setValues, 0)
        w == U_buildWhereClause(this, st.paramIndex)
    IN Built(this,
         <<"UPDATE", this.tableName, "SET">> \o JoinTokens(st.parts, <<",">>)
         \o <<"WHERE">> \o w.clause
         \o (IF Len(this.returningColumns) > 0
               THEN <<"OUTPUT">>
                    \o JoinTokens([i \in 1..Len(this.returningColumns) |->
                                     <<"INSERTED." \o this.returningColumns[i]>>], <<",">>)
               ELSE <<>>),
         Spread(st.parameters, w.parameters))

\* ======================================================================
\* DeleteQueryBuilder, core/query/DeleteQueryBuilder.ts
\* ======================================================================

D_constructor ==
  [cls |-> "Delete", tableName |-> "", whereConditions |-> <<>>,
   returningColumns |-> <<>>]

D_from(this, tableName) ==
  Mutated([this EXCEPT !.tableName = tableName])

\* where(...): dispatches on its own arguments.length.
D_where(this, argc, columnOrCondition, operatorOrValue, value) ==
  Mutated(
    [this EXCEPT !.whereConditions = Append(@,
       IF argc = 1
         THEN Condition("raw", "", "raw", columnOrCondition, <<UNDEFINED>>, FALSE, UNDEFINED)
       ELSE IF argc = 2
         THEN Condition("simple", columnOrCondition, "=", UNDEFINED,
                        <<operatorOrValue>>, FALSE, UNDEFINED)
       ELSE Condition("simple", columnOrCondition, operatorOrValue, UNDEFINED,
                      <<value>>, FALSE, UNDEFINED))])

D_push(this, condition) ==
  Mutated([this EXCEPT !.whereConditions = Append(@, condition)])

D_whereIn(this, column, values) ==
  D_push(this, Condition("in", column, "IN", UNDEFINED, values, TRUE, UNDEFINED))

D_whereBetween(this, column, min, max) ==
  D_push(this, Condition("between", column, "BETWEEN", UNDEFINED, <<min, max>>, TRUE,
                        UNDEFINED))

D_whereNull(this, column) ==
  D_push(this, Condition("null", column, "IS NULL", UNDEFINED, <<NULL>>, FALSE, UNDEFINED))

D_whereRaw(this, condition, values) ==
  D_push(this, Condition("raw", "", "raw", condition, values, TRUE, UNDEFINED))

\* returning(columns): a string is wrapped into a one-element array.
D_returning(this, columns) ==
  Mutated([this EXCEPT !.returningColumns = columns])

RECURSIVE D_whereParts(_, _)
\* The map() of buildWhereClause: per condition its tokens and the entries
\* it writes to whereParams; a raw condition writes none.
D_whereParts(conditions, paramIndex) ==
  IF Len(conditions) = 0 THEN [parts |-> <<>>, parameters |-> <<>>]
  ELSE
    LET c == conditions[1]
        n == CASE c.type = "simple" -> 1
               [] c.type = "in" -> Len(c.value)
               [] c.type = "between" -> 2
               [] OTHER -> 0
        entries == [i \in 1..n |->
                      [name |-> ParamName(paramIndex + i - 1), value |-> c.value[i]]]
        part ==
          CASE c.type = "raw" -> <<c.condition>>
            [] c.type = "simple" -> <<c.column, c.operator, Placeholder(paramIndex)>>
            [] c.type = "in" ->
                 <<c.column, c.operator, "(">>
                 \o JoinTokens([i \in 1..n |-> <<Placeholder(paramIndex + i - 1)>>], <<",">>)
                 \o <<")">>
            [] c.type = "between" ->
                 <<c.column, "BETWEEN", Placeholder(paramIndex), "AND",
                   Placeholder(paramIndex + 1)>>
            [] OTHER -> <<c.column, c.operator>>
        rest == D_whereParts(Tail(conditions), paramIndex + n)
    IN [parts |-> <<part>> \o rest.parts,
        parameters |-> AssignAll(entries, rest.parameters)]

D_buildWhereClause(this, startIndex) ==
  LET r == D_whereParts(this.whereConditions, startIndex)
  IN [clause |-> JoinTokens(r.parts, <<"AND">>), parameters |-> r.parameters]

D_build(this) ==
  IF this.tableName = "" THEN BuildThrew("Table name is required for DELETE query", this)
  ELSE IF Len(this.whereConditions) = 0
    THEN BuildThrew("WHERE clause is required for DELETE query for safety", this)
  ELSE
    LET w == D_buildWhereClause(this, 0)
    IN Built(this,
         <<"DELETE", "FROM", this.tableName, "WHERE">> \o w.clause
         \o (IF Len(this.returningColumns) > 0
               THEN <<"OUTPUT">>
                    \o JoinTokens([i \in 1..Len(this.returningColumns) |->
                                     <<"DELETED." \o this.returningColumns[i]>>], <<",">>)
               ELSE <<>>),
         w.parameters)

\* ======================================================================
\* InsertQueryBuilder, core/query/InsertQueryBuilder.ts
\* ======================================================================

N_constructor ==
  [cls |-> "Insert", tableName |-> "", insertValues |-> <<>>, multipleValues |-> <<>>,
   returningColumns |-> <<>>]

N_into(this, table) == Mutated([this EXCEPT !.tableName = table])

N_value(this, column, value) ==
  Mutated([this EXCEPT !.insertValues =
             AssignAll(@, <<[name |-> column, value |-> value]>>)])

\* values(data) as it would be if it replaced the row instead of merging.
N_valuesReplacing(this, data) == Mutated([this EXCEPT !.insertValues = data])

N_values(this, data) == Mutated([this EXCEPT !.insertValues = Spread(@, data)])

N_multipleRows(this, rows) == Mutated([this EXCEPT !.multipleValues = rows])

N_returning(this, columns) == Mutated([this EXCEPT !.returningColumns = columns])

\* row[column]: undefined when the row has no such key.
Prop(row, column) == IF HasKey(row, column) THEN Get(row, column) ELSE UNDEFINED

N_output(this) ==
  IF Len(this.returningColumns) > 0
    THEN <<"OUTPUT">>
         \o JoinTokens([i \in 1..Len(this.returningColumns) |->
                          <<"INSERTED." \o this.returningColumns[i]>>], <<",">>)
    ELSE <<>>

N_buildSingleInsert(this, paramIndex) ==
  IF Len(Keys(this.insertValues)) = 0
    THEN BuildThrew("No values provided for INSERT query", this)
  ELSE
    LET columns == Keys(this.insertValues)
        n == Len(columns)
    IN Built(this,
         <<"INSERT", "INTO", this.tableName, "(">>
         \o JoinTokens([i \in 1..n |-> <<columns[i]>>], <<",">>)
         \o <<")", "VALUES", "(">>
         \o JoinTokens([i \in 1..n |-> <<Placeholder(paramIndex + i - 1)>>], <<",">>)
         \o <<")">> \o N_output(this),
         AssignAll(<<>>, [i \in 1..n |->
            [name |-> ParamName(paramIndex + i - 1),
             value |-> Prop(this.insertValues, columns[i])]]))

\* buildMultipleInsert as it would be if the numbering restarted at each row.
N_buildMultipleInsertRestarting(this, paramIndex) ==
  LET columns == Keys(this.multipleValues[1])
      n == Len(columns)
      rows == this.multipleValues
  IN Built(this,
       <<"INSERT", "INTO", this.tableName, "(">>
       \o JoinTokens([i \in 1..n |-> <<columns[i]>>], <<",">>)
       \o <<")", "VALUES">>
       \o JoinTokens([r \in 1..Len(rows) |->
            <<"(">> \o JoinTokens([c \in 1..n |-> <<Placeholder(paramIndex + c - 1)>>], <<",">>)
            \o <<")">>], <<",">>)
       \o N_output(this),
       AssignAll(<<>>, [k \in 1..(Len(rows) * n) |->
          [name |-> ParamName(paramIndex + ((k - 1) % n)),
           value |-> Prop(rows[((k - 1) \div n) + 1], columns[((k - 1) % n) + 1])]]))

N_buildMultipleInsert(this, paramIndex) ==
  IF Len(this.multipleValues) = 0
    THEN BuildThrew("No values provided for multiple INSERT query", this)
  ELSE
    LET columns == Keys(this.multipleValues[1])
        n == Len(columns)
        rows == this.multipleValues
        at(r, c) == paramIndex + (r - 1) * n + (c - 1)
    IN Built(this,
         <<"INSERT", "INTO", this.tableName, "(">>
         \o JoinTokens([i \in 1..n |-> <<columns[i]>>], <<",">>)
         \o <<")", "VALUES">>
         \o JoinTokens([r \in 1..Len(rows) |->
              <<"(">> \o JoinTokens([c \in 1..n |-> <<Placeholder(at(r, c))>>], <<",">>)
              \o <<")">>], <<",">>)
         \o N_output(this),
         AssignAll(<<>>, [k \in 1..(Len(rows) * n) |->
            [name |-> ParamName(paramIndex + k - 1),
             value |-> Prop(rows[((k - 1) \div n) + 1], columns[((k - 1) % n) + 1])]]))

N_build(this) ==
  IF this.tableName = "" THEN BuildThrew("Table name is required for INSERT query", this)
  ELSE IF Len(this.multipleValues) > 0 THEN N_buildMultipleInsert(this, 0)
  ELSE N_buildSingleInsert(this, 0)

\* ======================================================================
\* The caller: obtains a builder from EZqlClient, chains fluent calls on
\* it and calls build().
\* ======================================================================

VARIABLES
  client,  \* the EZqlClient the caller created
  qb,      \* the builder the caller holds (the value the last call returned)
  out,     \* what the last call gave: a builder, { sql, parameters }, or an error
  hist,    \* per clause kind, the calls made on this builder that returned
  retry,   \* the executeWithRetry call in progress on the query executor
  provider \* a SqlServerConnectionProvider and the callers of its connect()

vars == <<client, qb, out, hist, retry, provider>>

\* The builders use neither the executor nor the provider.
services == <<retry, provider>>

Kinds == {"select", "aggregate", "from", "join", "where", "order", "group", "having",
          "limit", "offset", "set", "returning", "value", "rows"}

\* One call: the method, its string arguments, its list argument, its number.
Call(m, s, vs, n) == [m |-> m, s |-> s, vs |-> vs, n |-> n]

NoBuilder == [cls |-> "none"]
FluentOut(code) == [op |-> "call", threw |-> code, sql |-> <<>>, parameters |-> <<>>]
BuildOut(r) == [op |-> "build", threw |-> r.threw, sql |-> r.sql, parameters |-> r.parameters]

RECURSIVE SumLen(_, _)
SumLen(f, ks) ==
  IF ks = {} THEN 0
  ELSE LET k == CHOOSE x \in ks : TRUE IN Len(f[k]) + SumLen(f, ks \ {k})

TotalCalls == SumLen(hist, Kinds)

Cap(kind) ==
  CASE kind = "where" -> MaxWhere
    [] kind \in {"set", "value"} -> MaxSetCalls
    [] OTHER -> MaxPerKind

\* The caller makes one more call of this kind on a builder of class cls.
CanCall(cls, kind) ==
  /\ qb.cls = cls
  /\ Len(hist[kind]) < Cap(kind)
  /\ TotalCalls < MaxCalls

\* A fluent call gave r: the caller goes on with the returned builder, or
\* with the one it had when the call threw.
Fluent(kind, call, r) ==
  /\ qb' = IF r.threw = "" THEN r.ret ELSE qb
  /\ out' = FluentOut(r.threw)
  /\ hist' = IF r.threw = "" THEN [hist EXCEPT ![kind] = Append(@, call)] ELSE hist
  /\ UNCHANGED <<client, services>>

\* build() gave r; a mutable builder is left as build() left it.
Build(r) ==
  /\ qb' = r.self
  /\ out' = BuildOut(r)
  /\ UNCHANGED <<client, hist, services>>

FactoryOut(code) == [op |-> "factory", threw |-> code, sql |-> <<>>, parameters |-> <<>>]

New(builder) ==
  /\ qb' = builder
  /\ out' = FactoryOut("")
  /\ hist' = [k \in Kinds |-> <<>>]
  /\ UNCHANGED <<client, services>>

\* ------------------------------------------------------------ EZqlClient
\* The two classes named EZqlClient: the improved one hands out the fluent
\* wrappers, the simplified one the builders themselves.
Impls == {"improved", "simplified"}

\* EZqlClient.create(config): the provider is constructed unconnected and
\* isInitialized starts false.
EZqlClient_create(impl) ==
  [impl |-> impl, isInitialized |-> FALSE, providerConnected |-> FALSE]

\* connect() when connectionProvider.connect() resolves.
EZqlClient_connect(this) ==
  [this EXCEPT !.providerConnected = TRUE, !.isInitialized = TRUE]

EZqlClient_isConnected(this) == this.providerConnected /\ this.isInitialized

\* ensureConnected(): the code of the error it throws, "" when it returns.
EZqlClient_ensureConnected(this) ==
  IF ~EZqlClient_isConnected(this) THEN "NOT_CONNECTED" ELSE ""

\* A factory method: the improved client calls ensureConnected() first, the
\* simplified client constructs the builder at once.
Factory(builder) ==
  IF client.impl = "improved" /\ EZqlClient_ensureConnected(client) # ""
    THEN /\ out' = FactoryOut(EZqlClient_ensureConnected(client))
         /\ UNCHANGED <<client, qb, hist, services>>
    ELSE New(builder)

\* ------------------------------------- the executor and the provider at rest
\* No executeWithRetry call has been made.
NoRetry ==
  [pc |-> "idle", maxRetries |-> 0, attempt |-> 0, lastError |-> UNDEFINED,
   returned |-> "", threw |-> "", cause |-> UNDEFINED, log |-> <<>>, delays |-> <<>>]

Callers == {1, 2}

\* new SqlServerConnectionProvider(config): pool = null, isConnecting = false.
\* pools holds the connected flag of every ConnectionPool constructed so
\* far and pool is the index of the one this.pool refers to, 0 for null.
SqlServerConnectionProvider_constructor ==
  [pool |-> 0, isConnecting |-> FALSE, pools |-> <<>>,
   callers |-> [p \in Callers |-> [pc |-> "idle", pool |-> 0]],
   failures |-> 0, disconnects |-> 0]

Init ==
  /\ client \in {EZqlClient_create(impl) : impl \in Impls}
  /\ qb = NoBuilder
  /\ out = FluentOut("")
  /\ hist = [k \in Kinds |-> <<>>]
  /\ retry = NoRetry
  /\ provider = SqlServerConnectionProvider_constructor

\* The caller connects, if at all, before it asks for a builder.
Connect ==
  /\ qb = NoBuilder
  /\ ~EZqlClient_isConnected(client)
  /\ client' = EZqlClient_connect(client)
  /\ UNCHANGED <<qb, out, hist, services>>

ClientSelect == client.impl = "improved" /\ Factory(I_create)
ClientSelectMutable == client.impl = "simplified" /\ Factory(M_constructor)
ClientInsert == Factory(N_constructor)
ClientUpdate == Factory(U_constructor)
ClientDelete == Factory(D_constructor)

\* ------------------------------------------------------ the caller's inputs
Cols == {"id"}
Tables == {"users"}
Ops == {"=", ">"}
Vals == {"7"}
RawConds == {"age > 18"}
ValueLists == {<<>>, <<"7", "9">>}
Betweens == {<<"7", "9">>}
Counts == {0, 5}
ColumnLists == {<<>>, <<"id", "name">>}
RawSelects == {"1 AS one"}
RawFroms == {"users u"}
AggregateMethods == {"COUNT", "SUM"}
JoinMethods == {"INNER", "LEFT"}
JoinTables == {"orders"}
JoinConditions == {"orders.user_id = users.id"}
OrderCols == {"name"}
Directions == {"ASC", "DESC"}
RawOrders == {"NEWID()"}
GroupLists == {<<"name">>}
HavingConds == {"COUNT(*) > 1"}
MutableVals == {"7", NULL}
Connectors == {"OR"}
Entry(k, v) == [name |-> k, value |-> v]
SetColumns == {"active"}
SetVals == {"false", "true"}
SetObjects == {<<Entry("name", "x"), Entry("active", "true")>>}
ReturningLists == {<<"id">>}
InsertCols == {"a", "b"}
InsertVals == {"1", "2"}
InsertObjects == {<<Entry("a", "1"), Entry("b", "2")>>, <<Entry("b", "3")>>}
Rows == {<<Entry("a", "1"), Entry("b", "2")>>, <<Entry("a", "3"), Entry("b", "4")>>,
         <<Entry("b", "5")>>}
RowLists == UNION {[1..n -> Rows] : n \in 0..MaxRows}

\* ------------------------------------------- immutable SelectQueryBuilder
ISelect ==
  /\ CanCall("SelectImproved", "select")
  /\ \E cols \in ColumnLists :
       Fluent("select", Call("select", <<>>, cols, 0), I_select(qb, cols))

ISelectRaw ==
  /\ CanCall("SelectImproved", "select")
  /\ \E raw \in RawSelects :
       Fluent("select", Call("selectRaw", <<raw>>, <<>>, 0), I_selectRaw(qb, raw))

ISelectDistinct ==
  /\ CanCall("SelectImproved", "select")
  /\ \E cols \in ColumnLists \ {<<>>} :
       Fluent("select", Call("selectDistinct", <<>>, cols, 0), I_selectDistinct(qb, cols))

\* count / sum / avg / min / max
IAggregate ==
  /\ CanCall("SelectImproved", "aggregate")
  /\ \E f \in AggregateMethods :
       Fluent("aggregate", Call("aggregate", <<f, "id", UNDEFINED>>, <<>>, 0),
              I_addAggregate(qb, f, "id", UNDEFINED))

IFrom ==
  /\ CanCall("SelectImproved", "from")
  /\ \E t \in Tables : Fluent("from", Call("from", <<t>>, <<>>, 0), I_from(qb, t))

IFromRaw ==
  /\ CanCall("SelectImproved", "from")
  /\ \E t \in RawFroms : Fluent("from", Call("fromRaw", <<t>>, <<>>, 0), I_fromRaw(qb, t))

\* join / innerJoin / leftJoin / rightJoin / fullJoin
IJoin ==
  /\ CanCall("SelectImproved", "join")
  /\ \E ty \in JoinMethods, t \in JoinTables, on \in JoinConditions :
       Fluent("join", Call("join", <<ty, t, on>>, <<>>, 0), I_addJoin(qb, ty, t, on))

\* where(col, op, val), where(col, val), where(rawCondition)
IWhere ==
  /\ CanCall("SelectImproved", "where")
  /\ \/ \E c \in Cols, op \in Ops, v \in Vals :
          Fluent("where", Call("where", <<c, op, v>>, <<>>, 3), I_where(qb, 3, c, op, v))
     \/ \E c \in Cols, v \in Vals :
          Fluent("where", Call("where", <<c, v>>, <<>>, 2),
                 I_where(qb, 2, c, v, UNDEFINED))
     \/ \E raw \in RawConds :
          Fluent("where", Call("where", <<raw>>, <<>>, 1),
                 I_where(qb, 1, raw, UNDEFINED, UNDEFINED))

IWhereIn ==
  /\ CanCall("SelectImproved", "where")
  /\ \E c \in Cols, vs \in ValueLists :
       Fluent("where", Call("whereIn", <<c>>, vs, 0), I_whereIn(qb, c, vs))

IWhereNotIn ==
  /\ CanCall("SelectImproved", "where")
  /\ \E c \in Cols, vs \in ValueLists :
       Fluent("where", Call("whereNotIn", <<c>>, vs, 0), I_whereNotIn(qb, c, vs))

IWhereBetween ==
  /\ CanCall("SelectImproved", "where")
  /\ \E c \in Cols, b \in Betweens :
       Fluent("where", Call("whereBetween", <<c>>, b, 0), I_whereBetween(qb, c, b[1], b[2]))

IWhereNull ==
  /\ CanCall("SelectImproved", "where")
  /\ \E c \in Cols : Fluent("where", Call("whereNull", <<c>>, <<>>, 0), I_whereNull(qb, c))

IWhereNotNull ==
  /\ CanCall("SelectImproved", "where")
  /\ \E c \in Cols :
       Fluent("where", Call("whereNotNull", <<c>>, <<>>, 0), I_whereNotNull(qb, c))

IWhereRaw ==
  /\ CanCall("SelectImproved", "where")
  /\ \E raw \in RawConds, vs \in ValueLists :
       Fluent("where", Call("whereRaw", <<raw>>, vs, 0), I_whereRaw(qb, raw, vs))

IOrderBy ==
  /\ CanCall("SelectImproved", "order")
  /\ \E c \in OrderCols, d \in Directions :
       Fluent("order", Call("orderBy", <<c, d>>, <<>>, 0), I_orderBy(qb, c, d))

IOrderByRaw ==
  /\ CanCall("SelectImproved", "order")
  /\ \E raw \in RawOrders :
       Fluent("order", Call("orderByRaw", <<raw>>, <<>>, 0), I_orderByRaw(qb, raw))

IGroupBy ==
  /\ CanCall("SelectImproved", "group")
  /\ \E cols \in GroupLists :
       Fluent("group", Call("groupBy", <<>>, cols, 0), I_groupBy(qb, cols))

IHaving ==
  /\ CanCall("SelectImproved", "having")
  /\ \E h \in HavingConds : Fluent("having", Call("having", <<h>>, <<>>, 0), I_having(qb, h))

ILimit ==
  /\ CanCall("SelectImproved", "limit")
  /\ \E n \in Counts : Fluent("limit", Call("limit", <<>>, <<>>, n), I_limit(qb, n))

IOffset ==
  /\ CanCall("SelectImproved", "offset")
  /\ \E n \in Counts : Fluent("offset", Call("offset", <<>>, <<>>, n), I_offset(qb, n))

IClone ==
  /\ qb.cls = "SelectImproved"
  /\ LET r == I_clone(qb)
     IN qb' = r.ret /\ out' = FluentOut(r.threw) /\ UNCHANGED <<client, hist, services>>

IBuild ==
  /\ qb.cls = "SelectImproved"
  /\ Build(I_build(qb))

ImprovedNext ==
  \/ ISelect \/ ISelectRaw \/ ISelectDistinct \/ IAggregate \/ IFrom \/ IFromRaw \/ IJoin
  \/ IWhere \/ IWhereIn \/ IWhereNotIn \/ IWhereBetween \/ IWhereNull \/ IWhereNotNull
  \/ IWhereRaw \/ IOrderBy \/ IOrderByRaw \/ IGroupBy \/ IHaving \/ ILimit \/ IOffset
  \/ IClone \/ IBuild

\* --------------------------------------------- mutable SelectQueryBuilder
MSelect ==
  /\ CanCall("SelectMutable", "select")
  /\ \E cols \in ColumnLists :
       Fluent("select", Call("select", <<>>, cols, 0), M_select(qb, cols))

MFrom ==
  /\ CanCall("SelectMutable", "from")
  /\ \E t \in Tables : Fluent("from", Call("from", <<t>>, <<>>, 0), M_from(qb, t))

MJoin ==
  /\ CanCall("SelectMutable", "join")
  /\ \E t \in JoinTables, on \in JoinConditions :
       Fluent("join", Call("join", <<"INNER", t, on>>, <<>>, 0), M_join(qb, t, on))

\* where(col, op, val, connector), where(col, op, val), and the calls with
\* two arguments or one that the fluent interfaces declare.
MWhere ==
  /\ CanCall("SelectMutable", "where")
  /\ \/ \E c \in Cols, op \in Ops, v \in MutableVals, conn \in Connectors :
          Fluent("where", Call("where", <<c, op, v, conn>>, <<>>, 4),
                 M_where(qb, c, op, v, conn))
     \/ \E c \in Cols, op \in Ops, v \in MutableVals :
          Fluent("where", Call("where", <<c, op, v>>, <<>>, 3),
                 M_where(qb, c, op, v, UNDEFINED))
     \/ \E c \in Cols, v \in MutableVals :
          Fluent("where", Call("where", <<c, v>>, <<>>, 2),
                 M_where(qb, c, v, UNDEFINED, UNDEFINED))
     \/ \E raw \in RawConds :
          Fluent("where", Call("where", <<raw>>, <<>>, 1),
                 M_where(qb, raw, UNDEFINED, UNDEFINED, UNDEFINED))

MWhereRaw ==
  /\ CanCall("SelectMutable", "where")
  /\ \E raw \in RawConds, vs \in ValueLists :
       Fluent("where", Call("whereRaw", <<raw>>, vs, 0), M_whereRaw(qb, raw, vs))

MOrderBy ==
  /\ CanCall("SelectMutable", "order")
  /\ \E c \in OrderCols, d \in Directions :
       Fluent("order", Call("orderBy", <<c, d>>, <<>>, 0), M_orderBy(qb, c, d))

MGroupBy ==
  /\ CanCall("SelectMutable", "group")
  /\ \E cols \in GroupLists :
       Fluent("group", Call("groupBy", <<>>, cols, 0), M_groupBy(qb, cols))

MHaving ==
  /\ CanCall("SelectMutable", "having")
  /\ \E h \in HavingConds : Fluent("having", Call("having", <<h>>, <<>>, 0), M_having(qb, h))

MLimit ==
  /\ CanCall("SelectMutable", "limit")
  /\ \E n \in Counts : Fluent("limit", Call("limit", <<>>, <<>>, n), M_limit(qb, n))

MOffset ==
  /\ CanCall("SelectMutable", "offset")
  /\ \E n \in Counts : Fluent("offset", Call("offset", <<>>, <<>>, n), M_offset(qb, n))

\* build() pushes onto this.parameters every time it runs; the caller stops
\* building once the array holds MaxParams values.
MBuild ==
  /\ qb.cls = "SelectMutable"
  /\ Len(qb.parameters) < MaxParams
  /\ Build(M_build(qb))

MutableNext ==
  \/ MSelect \/ MFrom \/ MJoin \/ MWhere
  \/ MWhereRaw \/ MOrderBy \/ MGroupBy \/ MHaving \/ MLimit \/ MOffset \/ MBuild

\* ----------------------------------------------------- UpdateQueryBuilder
UTable ==
  /\ CanCall("Update", "from")
  /\ \E t \in Tables : Fluent("from", Call("table", <<t>>, <<>>, 0), U_table(qb, t))

\* set(column, value) and set(values)
USet ==
  /\ CanCall("Update", "set")
  /\ \/ \E c \in SetColumns, v \in SetVals :
          Fluent("set", Call("set", <<>>, <<Entry(c, v)>>, 2), U_set(qb, <<Entry(c, v)>>))
     \/ \E o \in SetObjects : Fluent("set", Call("set", <<>>, o, 1), U_set(qb, o))

UWhere ==
  /\ CanCall("Update", "where")
  /\ \/ \E c \in Cols, op \in Ops, v \in Vals :
          Fluent("where", Call("where", <<c, op, v>>, <<>>, 3), U_where(qb, 3, c, op, v))
     \/ \E c \in Cols, v \in Vals :
          Fluent("where", Call("where", <<c, v>>, <<>>, 2),
                 U_where(qb, 2, c, v, UNDEFINED))
     \/ \E raw \in RawConds :
          Fluent("where", Call("where", <<raw>>, <<>>, 1),
                 U_where(qb, 1, raw, UNDEFINED, UNDEFINED))

UWhereIn ==
  /\ CanCall("Update", "where")
  /\ \E c \in Cols, vs \in ValueLists :
       Fluent("where", Call("whereIn", <<c>>, vs, 0), U_whereIn(qb, c, vs))

UWhereBetween ==
  /\ CanCall("Update", "where")
  /\ \E c \in Cols, b \in Betweens :
       Fluent("where", Call("whereBetween", <<c>>, b, 0),
              U_whereBetween(qb, c, b[1], b[2]))

UWhereNull ==
  /\ CanCall("Update", "where")
  /\ \E c \in Cols :
       Fluent("where", Call("whereNull", <<c>>, <<>>, 0), U_whereNull(qb, c))

UWhereRaw ==
  /\ CanCall("Update", "where")
  /\ \E raw \in RawConds, vs \in ValueLists :
       Fluent("where", Call("whereRaw", <<raw>>, vs, 0), U_whereRaw(qb, raw, vs))

UReturning ==
  /\ CanCall("Update", "returning")
  /\ \E cols \in ReturningLists :
       Fluent("returning", Call("returning", <<>>, cols, 0), U_returning(qb, cols))

UBuild ==
  /\ qb.cls = "Update"
  /\ Build(U_build(qb))

UpdateNext ==
  \/ UTable \/ USet \/ UWhere \/ UWhereIn \/ UWhereBetween \/ UWhereNull
  \/ UWhereRaw \/ UReturning \/ UBuild

\* ----------------------------------------------------- DeleteQueryBuilder
DFrom ==
  /\ CanCall("Delete", "from")
  /\ \E t \in Tables : Fluent("from", Call("from", <<t>>, <<>>, 0), D_from(qb, t))

DWhere ==
  /\ CanCall("Delete", "where")
  /\ \/ \E c \in Cols, op \in Ops, v \in Vals :
          Fluent("where", Call("where", <<c, op, v>>, <<>>, 3), D_where(qb, 3, c, op, v))
     \/ \E c \in Cols, v \in Vals :
          Fluent("where", Call("where", <<c, v>>, <<>>, 2),
                 D_where(qb, 2, c, v, UNDEFINED))
     \/ \E raw \in RawConds :
          Fluent("where", Call("where", <<raw>>, <<>>, 1),
                 D_where(qb, 1, raw, UNDEFINED, UNDEFINED))

DWhereIn ==
  /\ CanCall("Delete", "where")
  /\ \E c \in Cols, vs \in ValueLists :
       Fluent("where", Call("whereIn", <<c>>, vs, 0), D_whereIn(qb, c, vs))

DWhereBetween ==
  /\ CanCall("Delete", "where")
  /\ \E c \in Cols, b \in Betweens :
       Fluent("where", Call("whereBetween", <<c>>, b, 0),
              D_whereBetween(qb, c, b[1], b[2]))

DWhereNull ==
  /\ CanCall("Delete", "where")
  /\ \E c \in Cols :
       Fluent("where", Call("whereNull", <<c>>, <<>>, 0), D_whereNull(qb, c))

DWhereRaw ==
  /\ CanCall("Delete", "where")
  /\ \E raw \in RawConds, vs \in ValueLists :
       Fluent("where", Call("whereRaw", <<raw>>, vs, 0), D_whereRaw(qb, raw, vs))

DReturning ==
  /\ CanCall("Delete", "returning")
  /\ \E cols \in ReturningLists :
       Fluent("returning", Call("returning", <<>>, cols, 0), D_returning(qb, cols))

DBuild ==
  /\ qb.cls = "Delete"
  /\ Build(D_build(qb))

DeleteNext ==
  \/ DFrom \/ DWhere \/ DWhereIn \/ DWhereBetween \/ DWhereNull
  \/ DWhereRaw \/ DReturning \/ DBuild

\* ----------------------------------------------------- InsertQueryBuilder
NInto ==
  /\ CanCall("Insert", "from")
  /\ \E t \in Tables : Fluent("from", Call("into", <<t>>, <<>>, 0), N_into(qb, t))

NValue ==
  /\ CanCall("Insert", "value")
  /\ \E c \in InsertCols, v \in InsertVals :
       Fluent("value", Call("value", <<>>, <<Entry(c, v)>>, 0), N_value(qb, c, v))

NValues ==
  /\ CanCall("Insert", "value")
  /\ \E o \in InsertObjects :
       Fluent("value", Call("values", <<>>, o, 0), N_values(qb, o))

NMultipleRows ==
  /\ CanCall("Insert", "rows")
  /\ \E rows \in RowLists :
       Fluent("rows", Call("multipleRows", <<>>, rows, 0), N_multipleRows(qb, rows))

NReturning ==
  /\ CanCall("Insert", "returning")
  /\ \E cols \in ReturningLists :
       Fluent("returning", Call("returning", <<>>, cols, 0), N_returning(qb, cols))

NBuild ==
  /\ qb.cls = "Insert"
  /\ Build(N_build(qb))

InsertNext == NInto \/ NValue \/ NValues \/ NMultipleRows \/ NReturning \/ NBuild

ClientNext ==
  \/ Connect
  \/ ClientSelect \/ ClientSelectMutable \/ ClientInsert \/ ClientUpdate \/ ClientDelete

Next ==
  ClientNext \/ ImprovedNext \/ MutableNext \/ UpdateNext \/ DeleteNext \/ InsertNext

Spec == Init /\ [][Next]_vars

\* ======================================================================
\* SqlServerQueryExecutor.executeWithRetry,
\* core/execution/SqlServerQueryExecutor.ts
\* ======================================================================

\* The errors the operation may reject with.
OperationErrors == {"ETIMEOUT", "ECONNRESET", "EREQUEST"}

\* The for loop's test, once attempt holds its value: the next attempt, or
\* the throw after the loop.
executeWithRetry_loop(this) ==
  IF this.attempt <= this.maxRetries
    THEN [this EXCEPT !.pc = "operation"]
    ELSE [this EXCEPT !.pc = "done", !.threw = "RETRY_EXHAUSTED",
                      !.cause = this.lastError]

\* executeWithRetry(operation, maxRetries) up to the first await.
executeWithRetry(maxRetries) ==
  executeWithRetry_loop([NoRetry EXCEPT !.maxRetries = maxRetries, !.attempt = 1])

\* The catch block delaying after every failed attempt, the last included.
executeWithRetry_catchAlwaysDelaying(this, error) ==
  [this EXCEPT !.lastError = error, !.log = Append(@, error),
               !.pc = "delay", !.delays = Append(@, (2 ^ this.attempt) * 1000)]

\* The catch block: lastError is kept; before the last attempt the call
\* sleeps 2^attempt * 1000 ms, after it the loop goes on to its end.
executeWithRetry_catch(this, error) ==
  LET caught == [this EXCEPT !.lastError = error, !.log = Append(@, error)]
  IN IF this.attempt < this.maxRetries
       THEN [caught EXCEPT !.pc = "delay",
                           !.delays = Append(@, (2 ^ this.attempt) * 1000)]
       ELSE executeWithRetry_loop([caught EXCEPT !.attempt = @ + 1])

builders == <<client, qb, out, hist>>

ExecuteWithRetry ==
  /\ retry.pc = "idle"
  /\ \E maxRetries \in 0..MaxRetries : retry' = executeWithRetry(maxRetries)
  /\ UNCHANGED <<builders, provider>>

\* return await operation(): the operation resolves.
OperationResolves ==
  /\ retry.pc = "operation"
  /\ retry' = [retry EXCEPT !.pc = "done", !.returned = "result",
                             !.log = Append(@, "ok")]
  /\ UNCHANGED <<builders, provider>>

OperationRejects ==
  /\ retry.pc = "operation"
  /\ \E error \in OperationErrors : retry' = executeWithRetry_catch(retry, error)
  /\ UNCHANGED <<builders, provider>>

\* The setTimeout promise resolves: attempt++ and the loop test.
TimerFires ==
  /\ retry.pc = "delay"
  /\ retry' = executeWithRetry_loop([retry EXCEPT !.attempt = @ + 1])
  /\ UNCHANGED <<builders, provider>>

RetryNext == ExecuteWithRetry \/ OperationResolves \/ OperationRejects \/ TimerFires

RetrySpec == Init /\ [][RetryNext]_vars

\* ======================================================================
\* SqlServerConnectionProvider, core/connection/SqlServerConnectionProvider.ts
\* ======================================================================

\* isConnected(): !!this.pool && this.pool.connected
SqlServerConnectionProvider_isConnected(this) ==
  this.pool # 0 /\ this.pools[this.pool]

\* The caller p is at pc and waits, if it waits, on the pool it connected.
At(this, p, pc, pool) == [this EXCEPT !.callers[p] = [pc |-> pc, pool |-> pool]]

\* connect() up to `await this.pool.connect()`: the two early returns,
\* else isConnecting is set and a new ConnectionPool becomes this.pool.
SqlServerConnectionProvider_connect(this, p) ==
  IF SqlServerConnectionProvider_isConnected(this) THEN At(this, p, "resolved", 0)
  ELSE IF this.isConnecting THEN At(this, p, "resolved", 0)
  ELSE At([this EXCEPT !.isConnecting = TRUE,
                       !.pools = Append(@, FALSE),
                       !.pool = Len(this.pools) + 1],
          p, "awaiting", Len(this.pools) + 1)

\* pool.connect() resolved: the pool p awaited is connected; finally.
SqlServerConnectionProvider_connected(this, p) ==
  At([this EXCEPT !.pools[this.callers[p].pool] = TRUE, !.isConnecting = FALSE],
     p, "resolved", 0)

\* pool.connect() rejected: CONNECTION_ERROR is thrown; finally.
SqlServerConnectionProvider_failed(this, p) ==
  At([this EXCEPT !.isConnecting = FALSE, !.failures = @ + 1], p, "rejected", 0)

\* disconnect() with a pool: the pool is closed and this.pool set to null.
SqlServerConnectionProvider_disconnect(this) ==
  [this EXCEPT !.pools[this.pool] = FALSE, !.pool = 0, !.disconnects = @ + 1]

ProviderConnect(p) ==
  /\ provider.callers[p].pc = "idle"
  /\ Len(provider.pools) < MaxPools
  /\ provider' = SqlServerConnectionProvider_connect(provider, p)
  /\ UNCHANGED <<builders, retry>>

PoolConnectResolves(p) ==
  /\ provider.callers[p].pc = "awaiting"
  /\ provider' = SqlServerConnectionProvider_connected(provider, p)
  /\ UNCHANGED <<builders, retry>>

PoolConnectRejects(p) ==
  /\ provider.callers[p].pc = "awaiting"
  /\ provider' = SqlServerConnectionProvider_failed(provider, p)
  /\ UNCHANGED <<builders, retry>>

\* The caller has seen how its connect() ended and may call again.
CallerGoesOn(p) ==
  /\ provider.callers[p].pc \in {"resolved", "rejected"}
  /\ provider' = At(provider, p, "idle", 0)
  /\ UNCHANGED <<builders, retry>>

ProviderDisconnect ==
  /\ provider.pool # 0
  /\ provider.disconnects < 1
  /\ provider' = SqlServerConnectionProvider_disconnect(provider)
  /\ UNCHANGED <<builders, retry>>

ProviderNext ==
  \/ \E p \in Callers :
       \/ ProviderConnect(p) \/ PoolConnectResolves(p) \/ PoolConnectRejects(p)
       \/ CallerGoesOn(p)
  \/ ProviderDisconnect

ProviderSpec == Init /\ [][ProviderNext]_vars

\* ======================================================================
\* Claims
\* ======================================================================

\* ---- reading a built statement and the calls that led to it
PlaceholderTokens == {Placeholder(i) : i \in 0..(8 * MaxCalls)}
Placeholders(sql) == SelectSeq(sql, LAMBDA t : t \in PlaceholderTokens)
Numbered(from, n) == [i \in 1..n |-> Placeholder(from + i - 1)]
ParamNames(n) == [i \in 1..n |-> ParamName(i - 1)]
Positions(sql, tok) == {i \in 1..Len(sql) : sql[i] = tok}
Has1(sql, tok) == Positions(sql, tok) # {}

BuiltOk == out.op = "build" /\ out.threw = ""
IsSelect == qb.cls \in {"SelectImproved", "SelectMutable"}

\* The values one where-kind call supplies, in order.
Supplied(call) ==
  CASE call.m = "where" /\ call.n \in {3, 4} -> <<call.s[3]>>
    [] call.m = "where" /\ call.n = 2 -> <<call.s[2]>>
    [] call.m \in {"whereIn", "whereNotIn", "whereBetween", "whereRaw"} -> call.vs
    [] OTHER -> <<>>

\* As Supplied, for the conditions that are written with placeholders.
SuppliedPlaced(call) == IF call.m = "whereRaw" THEN <<>> ELSE Supplied(call)

\* ---- the calls of the callers' menus, and a recorded call made again
SelectCalls ==
  {Call("select", <<>>, cols, 0) : cols \in ColumnLists}
  \cup {Call("selectRaw", <<raw>>, <<>>, 0) : raw \in RawSelects}
FromCalls ==
  {Call("from", <<t>>, <<>>, 0) : t \in Tables}
  \cup {Call("fromRaw", <<t>>, <<>>, 0) : t \in RawFroms}
WhereCalls ==
  {Call("where", <<c, op, v>>, <<>>, 3) : c \in Cols, op \in Ops, v \in Vals}
  \cup {Call("where", <<c, v>>, <<>>, 2) : c \in Cols, v \in Vals}
  \cup {Call("where", <<raw>>, <<>>, 1) : raw \in RawConds}
  \cup {Call("whereRaw", <<raw>>, vs, 0) : raw \in RawConds, vs \in ValueLists}
WhereListCalls ==
  {Call(m, <<c>>, vs, 0) : m \in {"whereIn", "whereNotIn"}, c \in Cols, vs \in ValueLists}
  \cup {Call("whereBetween", <<c>>, b, 0) : c \in Cols, b \in Betweens}
  \cup {Call(m, <<c>>, <<>>, 0) : m \in {"whereNull", "whereNotNull"}, c \in Cols}
TailCalls ==
  {Call("orderBy", <<c, d>>, <<>>, 0) : c \in OrderCols, d \in Directions}
  \cup {Call("groupBy", <<>>, cols, 0) : cols \in GroupLists}
  \cup {Call("having", <<h>>, <<>>, 0) : h \in HavingConds}
  \cup {Call(m, <<>>, <<>>, n) : m \in {"limit", "offset"}, n \in Counts}
ImprovedCalls ==
  SelectCalls \cup FromCalls \cup WhereCalls \cup WhereListCalls \cup TailCalls
  \cup {Call("selectDistinct", <<>>, cols, 0) : cols \in ColumnLists \ {<<>>}}
  \cup {Call("aggregate", <<f, "id", UNDEFINED>>, <<>>, 0) : f \in AggregateMethods}
  \cup {Call("join", <<ty, t, on>>, <<>>, 0) :
           ty \in JoinMethods, t \in JoinTables, on \in JoinConditions}
  \cup {Call("orderByRaw", <<raw>>, <<>>, 0) : raw \in RawOrders}

Arg(call, i) == IF i <= Len(call.s) THEN call.s[i] ELSE UNDEFINED

\* The call made on an immutable SelectQueryBuilder.
I_call(this, call) ==
  CASE call.m = "select" -> I_select(this, call.vs)
    [] call.m = "selectRaw" -> I_selectRaw(this, call.s[1])
    [] call.m = "selectDistinct" -> I_selectDistinct(this, call.vs)
    [] call.m = "aggregate" -> I_addAggregate(this, call.s[1], call.s[2], call.s[3])
    [] call.m = "from" -> I_from(this, call.s[1])
    [] call.m = "fromRaw" -> I_fromRaw(this, call.s[1])
    [] call.m = "join" -> I_addJoin(this, call.s[1], call.s[2], call.s[3])
    [] call.m = "where" -> I_where(this, call.n, Arg(call, 1), Arg(call, 2), Arg(call, 3))
    [] call.m = "whereIn" -> I_whereIn(this, call.s[1], call.vs)
    [] call.m = "whereNotIn" -> I_whereNotIn(this, call.s[1], call.vs)
    [] call.m = "whereBetween" -> I_whereBetween(this, call.s[1], call.vs[1], call.vs[2])
    [] call.m = "whereNull" -> I_whereNull(this, call.s[1])
    [] call.m = "whereNotNull" -> I_whereNotNull(this, call.s[1])
    [] call.m = "whereRaw" -> I_whereRaw(this, call.s[1], call.vs)
    [] call.m = "orderBy" -> I_orderBy(this, call.s[1], call.s[2])
    [] call.m = "orderByRaw" -> I_orderByRaw(this, call.s[1])
    [] call.m = "groupBy" -> I_groupBy(this, call.vs)
    [] call.m = "having" -> I_having(this, call.s[1])
    [] call.m = "limit" -> I_limit(this, call.n)
    [] call.m = "offset" -> I_offset(this, call.n)

\* The call made on a mutable SelectQueryBuilder.
M_call(this, call) ==
  CASE call.m = "select" -> M_select(this, call.vs)
    [] call.m = "from" -> M_from(this, call.s[1])
    [] call.m = "join" -> M_join(this, call.s[2], call.s[3])
    [] call.m = "where" ->
         M_where(this, Arg(call, 1), Arg(call, 2), Arg(call, 3), Arg(call, 4))
    [] call.m = "whereRaw" -> M_whereRaw(this, call.s[1], call.vs)
    [] call.m = "orderBy" -> M_orderBy(this, call.s[1], call.s[2])
    [] call.m = "groupBy" -> M_groupBy(this, call.vs)
    [] call.m = "having" -> M_having(this, call.s[1])
    [] call.m = "limit" -> M_limit(this, call.n)
    [] call.m = "offset" -> M_offset(this, call.n)

RECURSIVE FlatMap(_, _)
FlatMap(Op(_), seq) ==
  IF Len(seq) = 0 THEN <<>> ELSE Op(seq[1]) \o FlatMap(Op, Tail(seq))

RECURSIVE MergedEntries(_)
\* The keys the set / value / values calls wrote, each once, in order of
\* first writing, with the value written last.
MergedEntries(calls) ==
  IF Len(calls) = 0 THEN <<>>
  ELSE AssignAll(MergedEntries(SubSeq(calls, 1, Len(calls) - 1)), calls[Len(calls)].vs)

C2_PlaceholdersNameSuppliedValues ==
  (BuiltOk /\ qb.cls = "SelectImproved"
     /\ \A i \in 1..Len(hist["where"]) :
          /\ hist["where"][i].m \in {"where", "whereIn", "whereNotIn", "whereBetween"}
          /\ hist["where"][i].n # 1)
    => LET ph == Placeholders(out.sql)
           supplied == FlatMap(Supplied, hist["where"])
       IN /\ ph = Numbered(0, Len(supplied))
          /\ \A i \in 1..Len(ph) :
               /\ HasKey(out.parameters, ParamName(i - 1))
               /\ Get(out.parameters, ParamName(i - 1)) = supplied[i]

\* ---- C3
\* The number of scalar values the calls contributed.
Contributed ==
  Len(FlatMap(Supplied, hist["where"]))
  + (CASE qb.cls = "Update" -> Len(MergedEntries(hist["set"]))
       [] qb.cls = "Insert" ->
            IF Len(qb.multipleValues) > 0
              THEN Len(qb.multipleValues) * Len(qb.multipleValues[1])
              ELSE Len(MergedEntries(hist["value"]))
       [] OTHER -> 0)

\* C3: the parameter map of a successful build() of the immutable Select,
\* Insert, Update or Delete builder has exactly the keys param0..param{n-1},
\* n being the number of scalar values the calls contributed.
C3_KeysAreDense ==
  (BuiltOk /\ qb.cls \in {"SelectImproved", "Insert", "Update", "Delete"})
    => Keys(out.parameters) = ParamNames(Contributed)

C3_Witness ==
  /\ BuiltOk /\ qb.cls = "Update"
  /\ \E i \in 1..Len(hist["where"]) :
       hist["where"][i].m = "whereRaw" /\ Len(hist["where"][i].vs) > 0

\* ---- C4
\* C4: every fluent method of the immutable SelectQueryBuilder, whatever its
\* arguments, leaves the receiver as it was (so what the receiver builds and
\* what other extensions of it give is as before) and, when it returns,
\* returns an immutable SelectQueryBuilder.
C4_ReceiverUnchanged ==
  qb.cls = "SelectImproved"
    => /\ \A call \in ImprovedCalls :
            LET r == I_call(qb, call)
            IN /\ r.self = qb
               /\ r.threw = "" => r.ret.cls = "SelectImproved"
               /\ I_build(r.self) = I_build(qb)
       /\ I_clone(qb).self = qb

C4_Witness ==
  /\ qb.cls = "SelectImproved" /\ out.op = "call" /\ out.threw = ""
  /\ Len(qb.whereConditions) = 2 /\ qb.fromClause # "" /\ qb.limitClause # NullNum

\* ---- C5
\* C5: build() called again on the immutable SelectQueryBuilder that was just
\* built gives the same outcome, the same sql and an equal parameter map.
C5_BuildIsRepeatable ==
  (out.op = "build" /\ qb.cls = "SelectImproved") => BuildOut(I_build(qb)) = out

C5_Witness ==
  /\ BuiltOk /\ qb.cls = "SelectImproved"
  /\ Len(out.parameters) = 2 /\ Len(Placeholders(out.sql)) = 2

\* ---- C6
Rank(tok) ==
  CASE tok = "SELECT" -> 1 [] tok = "FROM" -> 2 [] tok = "JOIN" -> 3
    [] tok = "WHERE" -> 4 [] tok = "GROUP" -> 5 [] tok = "HAVING" -> 6
    [] tok = "ORDER" -> 7 [] tok = "OFFSET" -> 8 [] tok = "FETCH" -> 9
    [] OTHER -> 0

\* SELECT first, one FROM, then JOINs, WHERE, GROUP BY, HAVING, ORDER BY,
\* OFFSET, FETCH, each at most once but JOIN.
SectionsInOrder(sql) ==
  LET ks == SelectSeq(sql, LAMBDA t : Rank(t) > 0)
  IN /\ Len(ks) >= 2 /\ ks[1] = "SELECT" /\ ks[2] = "FROM"
     /\ \A i \in 1..(Len(ks) - 1) :
          \/ Rank(ks[i]) < Rank(ks[i + 1])
          \/ ks[i] = "JOIN" /\ ks[i + 1] = "JOIN"

RECURSIVE Orders(_)
\* Every order of the members of S.
Orders(S) ==
  IF S = {} THEN {<<>>}
  ELSE UNION {{<<k>> \o o : o \in Orders(S \ {k})} : k \in S}

RECURSIVE InOrder(_)
\* The recorded calls, kind after kind in the order given.
InOrder(order) ==
  IF Len(order) = 0 THEN <<>> ELSE hist[order[1]] \o InOrder(Tail(order))

RECURSIVE Replayed(_, _)
\* A new builder of the class on which the calls are made one after another.
Replayed(cls, calls) ==
  IF Len(calls) = 0 THEN (IF cls = "SelectImproved" THEN I_create ELSE M_constructor)
  ELSE LET b == Replayed(cls, SubSeq(calls, 1, Len(calls) - 1))
       IN IF cls = "SelectImproved" THEN I_call(b, calls[Len(calls)]).ret
          ELSE M_call(b, calls[Len(calls)]).ret

Rendered(cls, calls) ==
  LET r == IF cls = "SelectImproved" THEN I_build(Replayed(cls, calls))
           ELSE M_build(Replayed(cls, calls))
  IN [threw |-> r.threw, sql |-> r.sql]

\* C6: the SQL a Select builder builds has its sections in the fixed order
\* with exactly one FROM, and the calls that were made, made on a new builder
\* in any two orders of their kinds, render the same SQL.
C6_CallOrderIsIrrelevant ==
  (BuiltOk /\ IsSelect)
    => /\ SectionsInOrder(out.sql)
       /\ \A o1, o2 \in Orders({k \in Kinds : hist[k] # <<>>}) :
            Rendered(qb.cls, InOrder(o1)) = Rendered(qb.cls, InOrder(o2))

\* ---- C7
\* FluentSelectQuery.where hands all three of its parameters on.
FluentSelectQuery_where(this, argc, columnOrCondition, operatorOrValue, value) ==
  I_where(this, 3, columnOrCondition, operatorOrValue, value)

\* FluentUpdateQuery.where / FluentDeleteQuery.where hand on as many
\* arguments as they were given.
FluentUpdateQuery_where(this, argc, columnOrCondition, operatorOrValue, value) ==
  U_where(this, argc, columnOrCondition, operatorOrValue, value)

FluentDeleteQuery_where(this, argc, columnOrCondition, operatorOrValue, value) ==
  D_where(this, argc, columnOrCondition, operatorOrValue, value)

\* where() with argc arguments on the builder, made through the fluent
\* wrapper the client hands out where there is one.
WhereOn(this, argc, a, b, c) ==
  CASE this.cls = "SelectImproved" -> FluentSelectQuery_where(this, argc, a, b, c)
    [] this.cls = "SelectMutable" -> M_where(this, a, b, c, UNDEFINED)
    [] this.cls = "Update" -> FluentUpdateQuery_where(this, argc, a, b, c)
    [] this.cls = "Delete" -> FluentDeleteQuery_where(this, argc, a, b, c)

BuildOn(this) ==
  LET r == CASE this.cls = "SelectImproved" -> I_build(this)
             [] this.cls = "SelectMutable" -> M_build(this)
             [] this.cls = "Update" -> U_build(this)
             [] this.cls = "Delete" -> D_build(this)
  IN [threw |-> r.threw, sql |-> r.sql, parameters |-> r.parameters]

\* The tokens of the WHERE clause of a statement.
WhereClauseOf(sql) ==
  LET w == Positions(sql, "WHERE")
      from == (CHOOSE i \in w : TRUE) + 1
      ends == {i \in from..Len(sql) : sql[i] \in {"GROUP", "HAVING", "ORDER", "OFFSET", "OUTPUT"}}
      to == IF ends = {} THEN Len(sql) ELSE (CHOOSE i \in ends : \A j \in ends : i <= j) - 1
  IN IF w = {} THEN <<>> ELSE SubSeq(sql, from, to)

\* C7: on every builder with a where method, where(col, val) builds what
\* where(col, '=', val) builds, and where(rawCondition) adds a condition
\* that renders as rawCondition and nothing else, and adds no parameter.
C7_WhereForms ==
  qb.cls \in {"SelectImproved", "SelectMutable", "Update", "Delete"}
    => /\ \A c \in Cols, v \in Vals :
            BuildOn(WhereOn(qb, 2, c, v, UNDEFINED).ret)
              = BuildOn(WhereOn(qb, 3, c, "=", v).ret)
       /\ \A raw \in RawConds :
            LET r1 == BuildOn(WhereOn(qb, 1, raw, UNDEFINED, UNDEFINED).ret)
                r0 == BuildOn(qb)
                w == WhereClauseOf(r1.sql)
            IN r1.threw = ""
                 => /\ Len(w) > 0 /\ w[Len(w)] = raw
                    /\ Len(w) > 1 => w[Len(w) - 1] \in {"AND", "OR"}
                    /\ r0.threw = "" => Len(r1.parameters) = Len(r0.parameters)

\* ---- C8
\* C8: a Select builder on which limit(n), n > 0, was called and offset was
\* not builds SELECT [DISTINCT] TOP n ..., with no OFFSET and no FETCH.
C8_LimitAloneIsTop ==
  (BuiltOk /\ IsSelect /\ hist["limit"] # <<>> /\ hist["offset"] = <<>>
     /\ hist["limit"][Len(hist["limit"])].n > 0)
    => LET n == hist["limit"][Len(hist["limit"])].n
           p == IF out.sql[2] = "DISTINCT" THEN 3 ELSE 2
       IN /\ out.sql[1] = "SELECT"
          /\ SubSeq(out.sql, p, p + 1) = <<"TOP", NumStr(n)>>
          /\ ~Has1(out.sql, "OFFSET") /\ ~Has1(out.sql, "FETCH")

\* ---- C9
\* C9: a Select builder with a select list and a FROM, on which offset(n),
\* n > 0, was called and neither limit nor orderBy was, builds, and the SQL
\* ends with ORDER BY (SELECT NULL) OFFSET n ROWS and has no FETCH.
C9_OffsetAloneBuilds ==
  (out.op = "build" /\ IsSelect
     /\ hist["offset"] # <<>> /\ hist["offset"][Len(hist["offset"])].n > 0
     /\ hist["select"] # <<>> /\ hist["from"] # <<>> /\ hist["offset"] # <<>>
     /\ \A k \in Kinds \ {"select", "from", "offset", "where", "join"} : hist[k] = <<>>
     /\ (qb.cls = "SelectImproved" => Len(qb.selectClause.columns) > 0))
    => LET n == hist["offset"][Len(hist["offset"])].n
           len == Len(out.sql)
       IN /\ out.threw = ""
          /\ len >= 6
          /\ SubSeq(out.sql, len - 5, len)
               = <<"ORDER", "BY", "(SELECT NULL)", "OFFSET", NumStr(n), "ROWS">>
          /\ ~Has1(out.sql, "FETCH")

\* ---- C10
\* C10: UpdateQueryBuilder.build() with k SET columns writes them in the
\* order their keys were first set with @param0..@param{k-1}, the WHERE
\* placeholders go on from @param{k}, and every name maps to the value
\* written at its placeholder, so no name serves a SET and a WHERE value.
C10_SetThenWhere ==
  (BuiltOk /\ qb.cls = "Update")
    => LET set == MergedEntries(hist["set"])
           k == Len(set)
           placed == FlatMap(SuppliedPlaced, hist["where"])
           w == CHOOSE i \in Positions(out.sql, "WHERE") : TRUE
       IN /\ Placeholders(out.sql) = Numbered(0, k + Len(placed))
          /\ Placeholders(SubSeq(out.sql, 1, w)) = Numbered(0, k)
          /\ \A i \in 1..k :
               /\ \E p \in 1..w :
                    SubSeq(out.sql, p, p + 2) = <<set[i].name, "=", Placeholder(i - 1)>>
               /\ Get(out.parameters, ParamName(i - 1)) = set[i].value
          /\ \A j \in 1..Len(placed) :
               Get(out.parameters, ParamName(k + j - 1)) = placed[j]
          /\ Len(out.parameters) = k + Len(placed)

C10_Witness ==
  /\ BuiltOk /\ qb.cls = "Update"
  /\ Len(qb.setValues) = 2 /\ Len(hist["set"]) = 2
  /\ Len(Placeholders(out.sql)) >= 4

\* ---- C11
Last(seq) == seq[Len(seq)]
Names(entries) == [i \in 1..Len(entries) |-> entries[i].name]

\* C11: InsertQueryBuilder.build() after multipleRows(rows) with R >= 1 rows
\* takes its columns from the first row only, whatever value / values wrote,
\* and writes R value groups with the placeholders @param0..@param{R*C-1},
\* param{r*C+c} holding rows[r][column c].
C11_MultipleRows ==
  (out.op = "build" /\ qb.cls = "Insert" /\ hist["from"] # <<>>
     /\ hist["rows"] # <<>> /\ Len(Last(hist["rows"]).vs) >= 1)
    => LET rows == Last(hist["rows"]).vs
           columns == Names(rows[1])
           R == Len(rows)
           C == Len(columns)
           head == <<"INSERT", "INTO", Last(hist["from"]).s[1], "(">>
                   \o JoinTokens([c \in 1..C |-> <<columns[c]>>], <<",">>)
                   \o <<")", "VALUES">>
       IN /\ out.threw = ""
          /\ Len(out.sql) >= Len(head)
          /\ SubSeq(out.sql, 1, Len(head)) = head
          /\ Cardinality(Positions(out.sql, "(")) = R + 1
          /\ Placeholders(out.sql) = Numbered(0, R * C)
          /\ Keys(out.parameters) = ParamNames(R * C)
          /\ \A r \in 1..R, c \in 1..C :
               out.parameters[(r - 1) * C + c].value
                 = (IF \E i \in 1..Len(rows[r]) : rows[r][i].name = columns[c]
                      THEN rows[r][CHOOSE i \in 1..Len(rows[r]) :
                                     rows[r][i].name = columns[c]].value
                      ELSE UNDEFINED)

C11_Witness ==
  /\ BuiltOk /\ qb.cls = "Insert"
  /\ Len(qb.multipleValues) = 2 /\ Len(qb.multipleValues[1]) = 2
  /\ Len(qb.insertValues) > 0
  /\ Len(Placeholders(out.sql)) = 4

\* ---- C12
RECURSIVE Written(_)
\* The entries the value / values calls wrote, in the order written.
Written(calls) == IF Len(calls) = 0 THEN <<>> ELSE calls[1].vs \o Written(Tail(calls))

RECURSIVE FirstSeen(_)
\* The names of the entries, each once, in the order of first appearance.
FirstSeen(names) ==
  IF Len(names) = 0 THEN <<>>
  ELSE LET front == FirstSeen(SubSeq(names, 1, Len(names) - 1))
       IN IF \E i \in 1..Len(front) : front[i] = Last(names) THEN front
          ELSE Append(front, Last(names))

LastWritten(entries, name) ==
  entries[CHOOSE i \in 1..Len(entries) :
            /\ entries[i].name = name
            /\ \A j \in (i + 1)..Len(entries) : entries[j].name # name].value

\* C12: InsertQueryBuilder.build() in single-row mode, after value / values
\* calls, writes one column per distinct key in the order the keys were
\* first written, and binds each column to the value written last for it.
C12_SingleRowMerge ==
  (out.op = "build" /\ qb.cls = "Insert" /\ hist["from"] # <<>>
     /\ hist["value"] # <<>>
     /\ (hist["rows"] = <<>> \/ Len(Last(hist["rows"]).vs) = 0))
    => LET entries == Written(hist["value"])
           columns == FirstSeen(Names(entries))
           n == Len(columns)
           head == <<"INSERT", "INTO", Last(hist["from"]).s[1], "(">>
                   \o JoinTokens([c \in 1..n |-> <<columns[c]>>], <<",">>)
                   \o <<")", "VALUES", "(">>
                   \o JoinTokens([c \in 1..n |-> <<Placeholder(c - 1)>>], <<",">>)
                   \o <<")">>
       IN /\ out.threw = ""
          /\ Len(out.sql) >= Len(head)
          /\ SubSeq(out.sql, 1, Len(head)) = head
          /\ Placeholders(out.sql) = Numbered(0, n)
          /\ Keys(out.parameters) = ParamNames(n)
          /\ \A c \in 1..n : out.parameters[c].value = LastWritten(entries, columns[c])

C12_Witness ==
  /\ BuiltOk /\ qb.cls = "Insert"
  /\ Len(hist["value"]) = 2 /\ Len(Written(hist["value"])) = 3
  /\ Len(out.parameters) = 2
  /\ out.parameters[1].value # Written(hist["value"])[1].value

\* ---- C13
\* C13: no fluent (non-build) call on a statement builder raises an error:
\* whatever its arguments, the call returns a builder.
C13_FluentCallsNeverThrow == out.op = "call" => out.threw = ""

\* ---- C14

\* C14: a SELECT builder on which from/fromRaw never returned is invalid,
\* whatever else was called: validate() of the immutable builder reports
\* isValid = false with the FROM-required error, validate() of the mutable
\* builder raises it, and build() fails and returns no SQL.
C14_FromIsRequired ==
  (IsSelect /\ hist["from"] = <<>>) =>
    /\ qb.cls = "SelectImproved" =>
         /\ ~I_validate(qb).isValid
         /\ \E i \in 1..Len(I_validate(qb).errors) :
              I_validate(qb).errors[i] = "FROM clause is required"
    /\ qb.cls = "SelectMutable" => M_validate(qb) = "VALIDATION_ERROR"
    /\ out.op = "build" => (out.threw # "" /\ out.sql = <<>>)

\* A build without FROM on a builder that holds a select list and other
\* clauses.
C14_Witness ==
  /\ out.op = "build" /\ out.threw # "" /\ IsSelect
  /\ hist["from"] = <<>> /\ hist["select"] # <<>> /\ hist["where"] # <<>>

\* ---- C15

\* The select list the builder holds is empty: no columns and no aggregates.
EmptySelectList ==
  IF qb.cls = "SelectImproved"
    THEN Len(qb.selectClause.columns) = 0 /\ Len(qb.selectClause.aggregates) = 0
    ELSE Len(qb.selectClause) = 0

\* C15: a SELECT builder with a FROM source whose select list holds no
\* columns and no aggregates fails at build(): no build of either builder
\* succeeds with an empty select list.
C15_SelectListIsRequired ==
  (out.op = "build" /\ IsSelect /\ hist["from"] # <<>> /\ EmptySelectList) =>
    out.threw # ""

\* ---- C16

\* The builder holds a HAVING condition and no GROUP BY column.
HavingWithoutGroupBy ==
  IF qb.cls = "SelectImproved"
    THEN /\ Len(qb.groupByClause) > 0
         /\ qb.groupByClause[1].having # ""
         /\ Len(qb.groupByClause[1].columns) = 0
    ELSE qb.havingClause # "" /\ Len(qb.groupByClause) = 0

\* C16: a SELECT builder that holds a HAVING condition and no GROUP BY
\* column fails at build(), and the SQL of a successful build of either
\* builder has no HAVING that is not preceded by GROUP BY.
C16_HavingNeedsGroupBy ==
  (out.op = "build" /\ IsSelect) =>
    /\ (hist["having"] # <<>> /\ HavingWithoutGroupBy) => out.threw # ""
    /\ \A i \in Positions(out.sql, "HAVING") :
         \E j \in Positions(out.sql, "GROUP") : j < i

\* ---- C17

\* The SQL holds an IN or NOT IN with an empty parenthesised list.
HasEmptyInList(sql) ==
  \E i \in 1..Len(sql) :
    /\ i + 2 <= Len(sql)
    /\ sql[i] \in {"IN", "NOT IN"}
    /\ sql[i + 1] = "(" /\ sql[i + 2] = ")"

\* C17: in the builders that offer whereIn (immutable Select, Update,
\* Delete) an empty value list is an error: no build that succeeds follows
\* a whereIn call with an empty list, and no built SQL holds IN ().
C17_EmptyInListIsAnError ==
  (BuiltOk /\ qb.cls \in {"SelectImproved", "Update", "Delete"}) =>
    /\ ~HasEmptyInList(out.sql)
    /\ \A i \in 1..Len(hist["where"]) :
         hist["where"][i].m = "whereIn" => hist["where"][i].vs # <<>>

\* ---- C19

\* The position of the one token tok in sql, 0 when it is absent.
PositionOf(sql, tok) ==
  IF Positions(sql, tok) = {} THEN 0 ELSE CHOOSE i \in Positions(sql, tok) : TRUE

\* C19: after returning(cols) with at least one column, the built UPDATE
\* holds OUTPUT INSERTED.<col> for each column and the built DELETE holds
\* OUTPUT DELETED.<col>, and the OUTPUT clause stands before WHERE.
C19_OutputBeforeWhere ==
  (BuiltOk /\ qb.cls \in {"Update", "Delete"} /\ hist["returning"] # <<>>
     /\ Last(hist["returning"]).vs # <<>>) =>
    LET cols == Last(hist["returning"]).vs
        prefix == IF qb.cls = "Update" THEN "INSERTED." ELSE "DELETED."
        o == PositionOf(out.sql, "OUTPUT")
        list == JoinTokens([i \in 1..Len(cols) |-> <<prefix \o cols[i]>>], <<",">>)
    IN /\ o > 0
       /\ o + Len(list) <= Len(out.sql)
       /\ SubSeq(out.sql, o + 1, o + Len(list)) = list
       /\ o < PositionOf(out.sql, "WHERE")

\* ---- C18

\* Column names that are empty or blank.
BlankColumns == {"", " "}

\* this.whereRaw(condition) on a builder of any class.
WhereRawOn(this, condition) ==
  CASE this.cls = "SelectImproved" -> I_whereRaw(this, condition, <<>>)
    [] this.cls = "SelectMutable" -> M_whereRaw(this, condition, <<>>)
    [] this.cls = "Update" -> U_whereRaw(this, condition, <<>>)
    [] this.cls = "Delete" -> D_whereRaw(this, condition, <<>>)

\* The call was rejected, or else the build that follows it is.
Rejected(r) == r.threw # "" \/ BuildOn(r.ret).threw # ""

\* C18: on every builder with WHERE methods, a condition on an empty or
\* blank column, and a raw fragment holding ";" or "--", is rejected: no
\* build succeeds with such a condition.
C18_BadConditionsAreRejected ==
  qb.cls \in {"SelectImproved", "SelectMutable", "Update", "Delete"} =>
    /\ \A column \in BlankColumns : Rejected(WhereOn(qb, 3, column, "=", "7"))
    /\ \A fragment \in Dangerous : Rejected(WhereRawOn(qb, fragment))

\* ---- C20

\* C20: on an EZqlClient of either implementation that was created and never
\* connected, select/insert/update/delete return a builder, and no call of
\* the chain fails for want of a connection.
C20_BuildersNeedNoConnection ==
  ~EZqlClient_isConnected(client) =>
    /\ out.threw # "NOT_CONNECTED"
    /\ out.op = "factory" => (out.threw = "" /\ qb.cls # "none")

\* ---- C21

\* FluentSelectQuery.and / or: both hand the call on to where().
FluentSelectQuery_and(this, argc, column, operatorOrValue, value) ==
  FluentSelectQuery_where(this, argc, column, operatorOrValue, value)

FluentSelectQuery_or(this, argc, column, operatorOrValue, value) ==
  FluentSelectQuery_where(this, argc, column, operatorOrValue, value)

\* The condition is added with connector conn ("" for a plain where) to a
\* Select builder of either class.
ConnectOn(this, conn, column, operator, value) ==
  IF this.cls = "SelectImproved"
    THEN CASE conn = "OR" -> FluentSelectQuery_or(this, 3, column, operator, value)
           [] conn = "AND" -> FluentSelectQuery_and(this, 3, column, operator, value)
           [] OTHER -> FluentSelectQuery_where(this, 3, column, operator, value)
    ELSE M_where(this, column, operator, value, IF conn = "" THEN UNDEFINED ELSE conn)

\* C21: in the Select builders the first WHERE condition renders no
\* connector, and a later simple condition is joined to the ones before it
\* by its own connector: OR when added with or(...), AND when added with
\* where(...) or and(...).
C21_ConnectorsAreRendered ==
  IsSelect =>
    \A conn \in {"", "AND", "OR"}, c \in Cols, v \in Vals :
      LET r == ConnectOn(qb, conn, c, "=", v)
          b == BuildOn(r.ret)
          w == WhereClauseOf(b.sql)
      IN (r.threw = "" /\ b.threw = "") =>
           /\ Len(w) >= 3
           /\ w[1] \notin {"AND", "OR"}
           /\ Len(qb.whereConditions) > 0 =>
                /\ Len(w) >= 4
                /\ w[Len(w) - 3] = (IF conn = "OR" THEN "OR" ELSE "AND")

\* ---- C22

\* The values a simple condition is given, null among them.
SimpleVals == Vals \cup {NULL}

\* C22: on every builder with a where method, where(col, op, val), for
\* every operator and every value, null included, renders col op @paramK
\* as the last condition and adds exactly one parameter, paramK = val.
C22_SimpleConditionBindsOneValue ==
  qb.cls \in {"SelectImproved", "SelectMutable", "Update", "Delete"} =>
    \A c \in Cols, op \in Ops, v \in SimpleVals :
      LET r == WhereOn(qb, 3, c, op, v)
          b0 == BuildOn(qb)
          b == BuildOn(r.ret)
          w == WhereClauseOf(b.sql)
      IN (r.threw = "" /\ b.threw = "") =>
           /\ Len(w) >= 3
           /\ w[Len(w) - 2] = c /\ w[Len(w) - 1] = op
           /\ \E k \in 0..(2 * Len(b.parameters)) :
                /\ w[Len(w)] = Placeholder(k)
                /\ \E i \in 1..Len(b.parameters) :
                     b.parameters[i] = [name |-> ParamName(k), value |-> v]
           /\ b0.threw = "" => Len(b.parameters) = Len(b0.parameters) + 1

\* ---- C23

\* this.whereRaw(text, ...values) on a builder of any class.
WhereRawWith(this, text, values) ==
  CASE this.cls = "SelectImproved" -> I_whereRaw(this, text, values)
    [] this.cls = "SelectMutable" -> M_whereRaw(this, text, values)
    [] this.cls = "Update" -> U_whereRaw(this, text, values)
    [] this.cls = "Delete" -> D_whereRaw(this, text, values)

\* C23: on every builder with a whereRaw method, the condition added by
\* whereRaw(text, ...values) renders in the WHERE clause as text and
\* nothing else: the clause grows by that one token and its connector.
C23_RawRendersVerbatim ==
  qb.cls \in {"SelectImproved", "SelectMutable", "Update", "Delete"} =>
    \A text \in RawConds, values \in ValueLists :
      LET r == WhereRawWith(qb, text, values)
          b0 == BuildOn(qb)
          b == BuildOn(r.ret)
          w0 == IF b0.threw = "" THEN WhereClauseOf(b0.sql) ELSE <<>>
          w == WhereClauseOf(b.sql)
      IN (r.threw = "" /\ b.threw = "") =>
           /\ Len(w) > 0
           /\ w[Len(w)] = text
           /\ Len(w) = Len(w0) + (IF Len(w0) > 0 THEN 2 ELSE 1)

\* ---- C24

\* C24: on every builder with a whereRaw method, the k values given to
\* whereRaw(text, v1..vk) reach the parameter map build() returns, in
\* order, under the next k consecutive names, each exactly once.
C24_RawValuesAreBound ==
  qb.cls \in {"SelectImproved", "SelectMutable", "Update", "Delete"} =>
    \A text \in RawConds, values \in ValueLists :
      LET r == WhereRawWith(qb, text, values)
          b0 == BuildOn(qb)
          b == BuildOn(r.ret)
          k == Len(values)
          n == Len(b.parameters)
      IN (r.threw = "" /\ b.threw = "") =>
           /\ n >= k
           /\ \A i \in 1..k :
                b.parameters[n - k + i]
                  = [name |-> ParamName(n - k + i - 1), value |-> values[i]]
           /\ b0.threw = "" => n = Len(b0.parameters) + k

\* ---- C25

\* C25: executeWithRetry(operation, maxRetries) with maxRetries >= 1 calls
\* the operation at most maxRetries times and never again after an attempt
\* that resolved, whose result it returns; it sleeps 2^attempt seconds
\* after each failed attempt but the last; and when maxRetries attempts
\* have failed it throws RETRY_EXHAUSTED with the last attempt's error.
C25_RetryIsBounded ==
  (retry.pc # "idle" /\ retry.maxRetries >= 1) =>
    LET log == retry.log
        delays == retry.delays
    IN /\ Len(log) <= retry.maxRetries
       /\ \A i \in 1..(Len(log) - 1) : log[i] # "ok"
       /\ retry.returned # "" <=> (Len(log) > 0 /\ Last(log) = "ok")
       /\ retry.returned # "" => (retry.pc = "done" /\ retry.threw = "")
       /\ delays = [i \in 1..Len(delays) |-> (2 ^ i) * 1000]
       /\ Len(delays) <= retry.maxRetries - 1
       /\ retry.pc = "delay" => Len(delays) = Len(log)
       /\ retry.pc \in {"operation", "done"} =>
            Len(delays) = (IF retry.pc = "done" THEN Len(log) - 1 ELSE Len(log))
       /\ (retry.pc = "done" /\ retry.returned = "") =>
            /\ retry.threw = "RETRY_EXHAUSTED"
            /\ Len(log) = retry.maxRetries
            /\ retry.cause = Last(log)
       /\ retry.threw # "" => retry.pc = "done" /\ retry.returned = ""

\* Three attempts failed with different errors and the call gave up.
C25_Witness ==
  /\ retry.pc = "done" /\ retry.threw = "RETRY_EXHAUSTED"
  /\ retry.maxRetries = 3 /\ Len(retry.log) = 3 /\ retry.delays = <<2000, 4000>>
  /\ retry.log[1] # retry.log[3] /\ retry.cause = retry.log[3]

\* ---- C26

\* C26: build() on the mutable SelectQueryBuilder leaves the builder as it
\* was: building again right after a build returns the same SQL and the
\* same parameters, and the builder's parameter list is unchanged by it.
C26_MutableBuildIsRepeatable ==
  (BuiltOk /\ qb.cls = "SelectMutable") =>
    /\ BuildOut(M_build(qb)) = out
    /\ M_build(qb).self.parameters = qb.parameters

\* ---- C27

\* C27: no SQL a SELECT build() returns holds both TOP and OFFSET: for
\* every limit and offset the builder accepted, offset(0) included, the
\* statement pages with TOP or with OFFSET / FETCH, never with both.
C27_TopExcludesOffset ==
  (BuiltOk /\ IsSelect) => ~(Has1(out.sql, "TOP") /\ Has1(out.sql, "OFFSET"))

\* ---- C28

\* C28: in the immutable SelectQueryBuilder the value limit(n) or offset(n)
\* accepted, 0 included, is held by the returned builder and by every
\* later clone, and a build after limit(0) alone limits the result to 0
\* rows.
C28_ZeroIsRetained ==
  qb.cls = "SelectImproved" =>
    /\ hist["limit"] # <<>> => qb.limitClause = Last(hist["limit"]).n
    /\ hist["offset"] # <<>> => qb.offsetClause = Last(hist["offset"]).n
    /\ (BuiltOk /\ hist["limit"] # <<>> /\ hist["offset"] = <<>>) =>
         \E i \in Positions(out.sql, "TOP") :
           i < Len(out.sql) /\ out.sql[i + 1] = NumStr(Last(hist["limit"]).n)

\* ---- C29

\* C29: in the immutable SelectQueryBuilder groupBy and having commute:
\* having(c) then groupBy(cols) builds what groupBy(cols) then having(c)
\* builds, and a HAVING condition set before groupBy is kept.
C29_GroupByHavingCommute ==
  qb.cls = "SelectImproved" =>
    \A cols \in GroupLists, c \in HavingConds :
      LET g == I_groupBy(qb, cols)
          h == I_having(qb, c)
          gh == IF g.threw = "" THEN I_having(g.ret, c) ELSE g
          hg == IF h.threw = "" THEN I_groupBy(h.ret, cols) ELSE h
      IN (gh.threw = "" /\ hg.threw = "") =>
           /\ BuildOn(hg.ret) = BuildOn(gh.ret)
           /\ hg.ret.groupByClause[1].having = c

\* ---- C30

\* C30: under any interleaving of connect() calls on one provider, with no
\* disconnect(), a connect() that completed without error finds the
\* provider connected, so a second connect() made while the first is in
\* progress does not complete before the connection is established; and
\* as long as no connect() failed at most one pool has been created.
C30_ConnectMeansConnected ==
  provider.disconnects = 0 =>
    /\ \A p \in Callers :
         provider.callers[p].pc = "resolved" =>
           SqlServerConnectionProvider_isConnected(provider)
    /\ provider.failures = 0 => Len(provider.pools) <= 1

====
